---- MODULE Spec2Model ----
(***************************************************************************)
(* Model of the animal-image fetchers of petting_zootopia                  *)
(* (src/src/petting_zootopia/http.py): fetch_duck, fetch_dog with its      *)
(* primary/fallback stages, fetch_cat, the dispatcher fetch_animal and     *)
(* the error classifier _handle_httpx_error.                               *)
(*                                                                         *)
(* Strings are sequences of one-character strings, so that lower(),        *)
(* endswith() and startswith() are computed rather than assumed.  A JSON   *)
(* value is a record [t, s, n, fields, items]; a transport outcome is      *)
(* either an exception raised by client.get or an HTTP response.           *)
(***************************************************************************)
EXTENDS Integers, Sequences, FiniteSets, TLC

VARIABLES
    pc,         \* position of the fetch call: idle, *_await, done
    animal,     \* name the call was made for
    requests,   \* endpoints GET was issued to during this call, in order
    inflight,   \* endpoints whose GET has been issued and not yet completed
    outcomes,   \* transport outcome of each completed GET, in order
    primary_result,  \* fetch_dog's local primary_result
    fallback_result, \* fetch_dog's local fallback_result
    result,     \* what the call returned (or the exception it let through)
    hc_pc,      \* position of check_all_apis: idle, gathering, done
    probes,     \* per API: state of its check_api_health coroutine
    health,     \* what check_all_apis returned (or let through)
    fmt_error,  \* the error format_error_message was called with
    fmt_message, \* the sentence it returned
    tool,       \* the MCP tool that is running: duck, dog, cat, or "" for none
    tool_reply, \* what the tool returned to the MCP client
    mcp_http_client, \* create_mcp_server's http_client: None or the client
    web_pc,     \* position of get_animal (web.py): idle, awaiting, done
    web_req,    \* the request body and the handler's locals animal, query
    web_response,    \* what get_animal answered (or let through)
    web_http_client, \* create_app's http_client: None or the client
    now,        \* time.time(), in seconds
    limiters,   \* per API: the `requests` list of its RateLimiter
    legacy_pc,  \* position of the legacy tool: idle, await, fallback_await, done
    legacy_api, \* the legacy tool that is running, or "" for none
    legacy_gets,     \* endpoints the legacy tool issued a GET to, in order
    legacy_reply,    \* what the legacy tool returned
    legacy_calls,    \* per API: legacy tool calls made so far
    wc_pc,      \* position of get_animal (web_client/app.py): idle, awaiting, done
    wc_request, \* the request body it was called with
    wc_forwarded,    \* the queries it passed to process_query, in order
    wc_response,     \* what it answered (or let through)
    mcp_client,  \* web_client/app.py's global mcp_client: None or the client
    ol_pc,  \* position of the Ollama process_query: idle, calling_tool, done
    ol_posts,  \* the prompts it posted to Ollama
    ol_outcome,  \* what requests.post ended with
    ol_tool_calls,  \* the session.call_tool calls it made
    ol_result,  \* what it returned (or let through)
    calls,  \* per task: the frame of its fetch call
    seen,  \* a completed fetch call an observer keeps
    lh_pc,  \* position of get_health_status: idle, probing, done
    lh_outcomes,  \* what the GETs of the legacy probes ended with, in order
    lh_results,  \* the HealthCheckResult of each API probed so far
    lh_report,  \* what get_health_status returned (or let through)
    cl_pc,  \* position of connect or query: idle, an awaited step, connect_done, query_done
    cl_path,  \* the server_path connect was called with
    session,  \* create_client's session: None or the ClientSession
    cl_result,  \* what connect or query returned (or let through)
    cl_connects,  \* connect calls made so far
    cl_connected,  \* some connect call has returned Ok
    rl_now,  \* time.time() as the concurrent callers read it, in seconds
    rl_requests,  \* per API: the `requests` list of its RateLimiter
    callers,  \* per caller: its position (idle, sleeping, fetching, refused), its API, its wake-up time
    srv_http_client,  \* create_mcp_server's http_client when tools run concurrently: 0 for None, else the client
    srv_constructed,  \* httpx.AsyncClient objects constructed so far
    srv_tasks,  \* per tool task: its position (idle, called, awaiting), its tool, its client
    config_http_timeout,  \* Config.http_timeout, in seconds
    tm_pc,  \* where the fetcher run under the configured timeout is
    tm_gets,  \* the GETs that fetcher issued, each with its url and timeout
    tm_primary,  \* the result of fetch_dog's primary stage in that fetcher
    tm_result,  \* what that fetcher returned
    dog_legacy,  \* the dog tool of server/petting_zootopia.py: position, GETs issued, reply
    dog_new,  \* the dog tool of petting_zootopia.server: position, GETs issued, reply
    dog_answers,  \* what the primary and the fallback endpoint answer the two dog tools
    dog_limiter,  \* the requests the legacy dog limiter holds in that run
    dog_admitted,  \* whether the legacy limiter admitted the call
    dog_primary  \* primary_result of fetch_dog in the new dog tool

\* the variables of one fetch call
fetchVars == <<pc, animal, requests, inflight, outcomes, primary_result,
               fallback_result, result>>
\* the variables of one check_all_apis call (server.py)
healthVars == <<hc_pc, probes, health>>
\* the variables of one format_error_message call (types.py)
formatVars == <<fmt_error, fmt_message>>
\* the variables of the MCP tools (server.py)
toolVars == <<tool, tool_reply, mcp_http_client>>
\* the variables of the web application (web.py)
webVars == <<web_pc, web_req, web_response, web_http_client>>
\* the variables of the legacy tool server (server/petting_zootopia.py,
\* rate_limiter.py)
legacyVars == <<now, limiters, legacy_pc, legacy_api, legacy_gets, legacy_reply,
                legacy_calls>>
\* the variables of the MCP web interface (web_client/app.py)
clientVars == <<wc_pc, wc_request, wc_forwarded, wc_response, mcp_client>>
\* the variables of the Ollama query processor (mcp_client/ai_mcp_client.py)
ollamaVars == <<ol_pc, ol_posts, ol_outcome, ol_tool_calls, ol_result>>
\* the variables of the concurrent fetch calls (http.py)
concurrentVars == <<calls, seen>>
\* the variables of the legacy health check (health_check.py)
legacyHealthVars == <<lh_pc, lh_outcomes, lh_results, lh_report>>
\* the variables of the MCP client of create_client (client.py)
mcpClientVars == <<cl_pc, cl_path, session, cl_result, cl_connects, cl_connected>>
\* the variables of the concurrent callers of the rate limiters (rate_limiter.py)
limiterVars == <<rl_now, rl_requests, callers>>
\* the variables of the concurrent tool calls of create_mcp_server (server.py)
serverVars == <<srv_http_client, srv_constructed, srv_tasks>>
\* the variables of the fetchers run under a configured timeout (config.py, http.py)
timeoutVars == <<config_http_timeout, tm_pc, tm_gets, tm_primary, tm_result>>
\* the variables of the two dog tools run side by side
dogVars == <<dog_legacy, dog_new, dog_answers, dog_limiter, dog_admitted, dog_primary>>
\* everything but the fetch call: its callers and the other components
layerVars == <<healthVars, formatVars, toolVars, webVars, legacyVars, clientVars,
               ollamaVars, concurrentVars, legacyHealthVars, mcpClientVars,
               limiterVars, serverVars, timeoutVars, dogVars>>
\* everything but the health check
notHealthVars == <<fetchVars, formatVars, toolVars, webVars, legacyVars, clientVars,
                   ollamaVars, concurrentVars, legacyHealthVars,
                   mcpClientVars, limiterVars, serverVars, timeoutVars,
                   dogVars>>
\* everything but the formatter
notFormatVars == <<fetchVars, healthVars, toolVars, webVars, legacyVars, clientVars,
                   ollamaVars, concurrentVars, legacyHealthVars,
                   mcpClientVars, limiterVars, serverVars, timeoutVars,
                   dogVars>>
\* everything but the MCP tools and the fetch call they make
notToolVars == <<healthVars, formatVars, webVars, legacyVars, clientVars,
                 ollamaVars, concurrentVars, legacyHealthVars, mcpClientVars,
                 limiterVars, serverVars, timeoutVars, dogVars>>
\* everything but the web application and the fetch call it makes
notWebVars == <<healthVars, formatVars, toolVars, legacyVars, clientVars,
                ollamaVars, concurrentVars, legacyHealthVars, mcpClientVars,
                limiterVars, serverVars, timeoutVars, dogVars>>
\* everything but the legacy tool server and the fetch call
notLegacyVars == <<healthVars, formatVars, toolVars, webVars, clientVars,
                   ollamaVars, concurrentVars, legacyHealthVars,
                   mcpClientVars, limiterVars, serverVars, timeoutVars,
                   dogVars>>
\* everything but the MCP web interface and the fetch call
notClientVars == <<healthVars, formatVars, toolVars, webVars, legacyVars,
                   ollamaVars, concurrentVars, legacyHealthVars,
                   mcpClientVars, limiterVars, serverVars, timeoutVars,
                   dogVars>>
\* everything but the Ollama query processor
notOllamaVars == <<fetchVars, healthVars, formatVars, toolVars, webVars,
                   legacyVars, clientVars, concurrentVars, legacyHealthVars,
                   mcpClientVars, limiterVars, serverVars, timeoutVars,
                   dogVars>>
\* everything but the concurrent fetch calls and the single fetch call
notConcurrentVars == <<healthVars, formatVars, toolVars, webVars,
                       legacyVars, clientVars, ollamaVars, legacyHealthVars,
                       mcpClientVars, limiterVars, serverVars, timeoutVars,
                       dogVars>>
\* everything but the legacy health check
notLegacyHealthVars == <<fetchVars, healthVars, formatVars, toolVars,
                         webVars, legacyVars, clientVars, ollamaVars, concurrentVars,
                         mcpClientVars, limiterVars, serverVars, timeoutVars,
                         dogVars>>
\* everything but the MCP client of create_client
notMcpClientVars == <<fetchVars, healthVars, formatVars, toolVars, webVars,
                      legacyVars, clientVars, ollamaVars, concurrentVars, legacyHealthVars,
                      limiterVars, serverVars, timeoutVars, dogVars>>
\* everything but the concurrent callers of the rate limiters
notLimiterVars == <<fetchVars, healthVars, formatVars, toolVars, webVars,
                    legacyVars, clientVars, ollamaVars, concurrentVars, legacyHealthVars,
                    mcpClientVars, serverVars, timeoutVars, dogVars>>
\* everything but the concurrent tool calls of create_mcp_server
notServerVars == <<fetchVars, healthVars, formatVars, toolVars, webVars,
                   legacyVars, clientVars, ollamaVars, concurrentVars, legacyHealthVars,
                   mcpClientVars, limiterVars, timeoutVars, dogVars>>
\* everything but the fetchers run under a configured timeout
notTimeoutVars == <<fetchVars, healthVars, formatVars, toolVars, webVars,
                    legacyVars, clientVars, ollamaVars, concurrentVars, legacyHealthVars,
                    mcpClientVars, limiterVars, serverVars, dogVars>>
\* everything but the two dog tools run side by side
notDogVars == <<fetchVars, healthVars, formatVars, toolVars, webVars,
                legacyVars, clientVars, ollamaVars, concurrentVars, legacyHealthVars,
                mcpClientVars, limiterVars, serverVars, timeoutVars>>

vars == <<fetchVars, layerVars>>

(***************************************************************************)
(* Bounds                                                                  *)
(***************************************************************************)
MaxHostLen == 1     \* longest host part of a generated URL string
MaxBlankLen == 2    \* longest whitespace-only string
MaxCatCalls == 11   \* calls of the legacy cat tool in one run
MaxOtherCalls == 1  \* calls of the legacy duck tool, and of the dog tool
MaxTicks == 1       \* times the clock moves on in one run

(***************************************************************************)
(* Strings                                                                 *)
(***************************************************************************)
UpperChars == <<"A","B","C","D","E","F","G","H","I","J","K","L","M",
                "N","O","P","Q","R","S","T","U","V","W","X","Y","Z">>
LowerChars == <<"a","b","c","d","e","f","g","h","i","j","k","l","m",
                "n","o","p","q","r","s","t","u","v","w","x","y","z">>

\* str.lower() on one character
lower_char(c) ==
    IF \E i \in 1..Len(UpperChars) : UpperChars[i] = c
    THEN LowerChars[CHOOSE i \in 1..Len(UpperChars) : UpperChars[i] = c]
    ELSE c

\* str.lower()
lower(s) == [i \in 1..Len(s) |-> lower_char(s[i])]

\* str.endswith(suffix)
endswith1(s, suf) ==
    /\ Len(suf) <= Len(s)
    /\ SubSeq(s, Len(s) - Len(suf) + 1, Len(s)) = suf

\* str.endswith(tuple of suffixes)
endswith(s, sufs) == \E suf \in sufs : endswith1(s, suf)

\* the extensions fetch_dog accepts
IMAGE_EXTENSIONS ==
    { <<".","j","p","g">>, <<".","j","p","e","g">>, <<".","p","n","g">>,
      <<".","g","i","f">>, <<".","w","e","b","p">> }

(***************************************************************************)
(* Input strings: scheme \o host \o extension, and whitespace-only strings *)
(***************************************************************************)
Schemes == { <<"h","t","t","p","s",":","/","/">>, <<"h","t","t","p",":","/","/">>,
             <<"f","t","p",":","/","/">>, <<>> }
Hosts == UNION { [1..n -> {"x"}] : n \in 0..MaxHostLen }
Extensions == IMAGE_EXTENSIONS \cup
              { <<>>, <<".","J","P","G">>, <<".","m","p","4">> }
Blanks == UNION { [1..n -> {" "}] : n \in 1..MaxBlankLen }
Strings == { sc \o h \o e : sc \in Schemes, h \in Hosts, e \in Extensions } \cup Blanks

(***************************************************************************)
(* JSON values, as response.json() returns them                            *)
(***************************************************************************)
JNull      == [t |-> "null", s |-> <<>>, n |-> 0, fields |-> <<>>, items |-> <<>>]
JBool(b)   == [t |-> "bool", s |-> <<>>, n |-> IF b THEN 1 ELSE 0, fields |-> <<>>, items |-> <<>>]
JNum(k)    == [t |-> "num", s |-> <<>>, n |-> k, fields |-> <<>>, items |-> <<>>]
JStr(str)  == [t |-> "str", s |-> str, n |-> 0, fields |-> <<>>, items |-> <<>>]
\* an object is a sequence of <<key, value>> pairs with distinct keys
JObj(kvs)  == [t |-> "obj", s |-> <<>>, n |-> 0, fields |-> kvs, items |-> <<>>]
JArr(its)  == [t |-> "arr", s |-> <<>>, n |-> 0, fields |-> <<>>, items |-> its]

\* Python truth value of a JSON value (`if not url`, `if not data`)
truthy(v) ==
    CASE v.t = "null" -> FALSE
      [] v.t = "bool" -> v.n = 1
      [] v.t = "num"  -> v.n # 0
      [] v.t = "str"  -> Len(v.s) > 0
      [] v.t = "obj"  -> Len(v.fields) > 0
      [] v.t = "arr"  -> Len(v.items) > 0

\* dict.get(key, default) on a value known to be an object
dict_get(obj, key, default) ==
    IF \E i \in 1..Len(obj.fields) : obj.fields[i][1] = key
    THEN obj.fields[CHOOSE i \in 1..Len(obj.fields) : obj.fields[i][1] = key][2]
    ELSE default

\* values an endpoint may put in a field
FieldValues ==
    { JStr(str) : str \in Strings } \cup
    { JNull, JBool(TRUE), JBool(FALSE), JNum(0), JNum(5), JArr(<<>>) }

Objects ==
    { JObj(<<>>), JObj(<< <<"other", JNum(5)>> >>) } \cup
    { JObj(<< <<k, v>> >>) : k \in {"url", "message"}, v \in FieldValues }

Arrays ==
    { JArr(<<>>), JArr(<<JNum(5)>>), JArr(<<JObj(<<>>)>>) } \cup
    { JArr(<< JObj(<< <<"url", v>> >>) >>) : v \in FieldValues }

\* a body response.json() cannot decode
Undecodable == [t |-> "undecodable", s |-> <<>>, n |-> 0, fields |-> <<>>, items |-> <<>>]

Bodies ==
    {Undecodable, JNull, JNum(0), JNum(5), JBool(TRUE), JStr(<<"x">>)}
    \cup Objects \cup Arrays

(***************************************************************************)
(* Transport outcomes of `await client.get(url, timeout=...)`              *)
(***************************************************************************)
\* exception classes client.get can raise
TimeoutExceptions == {"ConnectTimeout", "ReadTimeout"}   \* httpx.TimeoutException
ConnectErrors     == {"ConnectError"}                    \* httpx.ConnectError
OtherHTTPErrors   == {"ReadError", "TooManyRedirects", "DecodingError"}
                                                         \* other httpx.HTTPError
PlainExceptions   == {"InvalidURL", "RuntimeError"}      \* Exception, not httpx.HTTPError
BaseExceptions    == {"CancelledError"}                  \* BaseException only
TransportExceptions ==
    TimeoutExceptions \cup ConnectErrors \cup OtherHTTPErrors
    \cup PlainExceptions \cup BaseExceptions

\* an exception object; status and retry_after are those of e.response
Exc(cls, status, retry_after) ==
    [cls |-> cls, status |-> status, retry_after |-> retry_after]

SuccessStatuses == {200, 201}
ErrorStatuses   == {301, 404, 429, 500, 503}

\* the Retry-After header: <<>> when missing, <<value>> when present; the
\* value is a number of seconds or an HTTP date
RetryAfterHeaders == { <<>>, << <<"3","0">> >>, << <<"W","e","d">> >> }

Raises(cls) ==
    [o |-> "raise", cls |-> cls, status |-> 0, retry_after |-> <<>>, body |-> JNull]
Response(status, retry_after, body) ==
    [o |-> "response", cls |-> "", status |-> status, retry_after |-> retry_after, body |-> body]

\* bodies sent with the statuses other than 200: one the three fetchers
\* would accept between them, and one none of them can decode
GoodUrl == <<"h","t","t","p",":","/","/","x",".","p","n","g">>
SampleBodies ==
    { JObj(<< <<"url", JStr(GoodUrl)>> >>), JObj(<< <<"message", JStr(GoodUrl)>> >>),
      JArr(<< JObj(<< <<"url", JStr(GoodUrl)>> >>) >>), Undecodable }

Outcomes ==
    { Raises(cls) : cls \in TransportExceptions } \cup
    { Response(200, <<>>, b) : b \in Bodies } \cup
    { Response(st, ra, b) : st \in (SuccessStatuses \ {200}) \cup ErrorStatuses,
                            ra \in RetryAfterHeaders, b \in SampleBodies }

(***************************************************************************)
(* Result and error values (types.py)                                      *)
(***************************************************************************)
AnimalImage(url, a) == [url |-> url, animal |-> a]
Ok(value)  == [kind |-> "Ok", value |-> value]
Err(error) == [kind |-> "Err", error |-> error]
\* not a value: the call let exception exc through to its caller
Raised(exc) == [kind |-> "Raised", exc |-> exc]
\* no result yet
NoResult == [kind |-> "None"]

\* a message string: fixed text and the value interpolated into it
Text(msg, arg) == [msg |-> msg, arg |-> arg]
\* str(exception)
str_exc(e) == Text(e.cls, JNum(e.status))

NetworkTimeout(a, secs) ==
    [tag |-> "NetworkTimeout", animal |-> a, timeout_seconds |-> secs]
RateLimited(a, retry_after) ==
    [tag |-> "RateLimited", animal |-> a, retry_after |-> retry_after]
HttpError(a, code, message) ==
    [tag |-> "HttpError", animal |-> a, status_code |-> code, message |-> message]
ConnectionFailed(a, reason) ==
    [tag |-> "ConnectionFailed", animal |-> a, reason |-> reason]
ParseError(a, details) ==
    [tag |-> "ParseError", animal |-> a, details |-> details]

(***************************************************************************)
(* Exception classes                                                       *)
(***************************************************************************)
IsTimeoutException(cls) == cls \in TimeoutExceptions
IsConnectError(cls)     == cls \in ConnectErrors
IsHTTPStatusError(cls)  == cls = "HTTPStatusError"
IsHTTPError(cls) ==
    cls \in TimeoutExceptions \cup ConnectErrors \cup OtherHTTPErrors \cup {"HTTPStatusError"}
IsException(cls) == cls \notin BaseExceptions

\* the timeout _handle_httpx_error reports
REPORTED_TIMEOUT_SECONDS == 10

(***************************************************************************)
(* _handle_httpx_error                                                     *)
(***************************************************************************)
\* faulty variant: the 429 case is missing, and every status becomes an HttpError
_handle_httpx_error_no429(error, a) ==
    CASE IsTimeoutException(error.cls) -> NetworkTimeout(a, REPORTED_TIMEOUT_SECONDS)
      [] IsConnectError(error.cls) -> ConnectionFailed(a, str_exc(error))
      [] IsHTTPStatusError(error.cls) -> HttpError(a, error.status, str_exc(error))
      [] OTHER -> ConnectionFailed(a, str_exc(error))

\* faulty variant: the Retry-After header is not read
_handle_httpx_error_no_header(error, a) ==
    CASE IsTimeoutException(error.cls) -> NetworkTimeout(a, REPORTED_TIMEOUT_SECONDS)
      [] IsConnectError(error.cls) -> ConnectionFailed(a, str_exc(error))
      [] IsHTTPStatusError(error.cls) ->
            IF error.status = 429
            THEN RateLimited(a, <<>>)
            ELSE HttpError(a, error.status, str_exc(error))
      [] OTHER -> ConnectionFailed(a, str_exc(error))

\* faulty variant: the catch-all case reports a ParseError
_handle_httpx_error_parse(error, a) ==
    CASE IsTimeoutException(error.cls) -> NetworkTimeout(a, REPORTED_TIMEOUT_SECONDS)
      [] IsConnectError(error.cls) -> ConnectionFailed(a, str_exc(error))
      [] IsHTTPStatusError(error.cls) ->
            IF error.status = 429
            THEN RateLimited(a, error.retry_after)
            ELSE HttpError(a, error.status, str_exc(error))
      [] OTHER -> ParseError(a, str_exc(error))

_handle_httpx_error(error, a) ==
    CASE IsTimeoutException(error.cls) -> NetworkTimeout(a, REPORTED_TIMEOUT_SECONDS)
      [] IsConnectError(error.cls) -> ConnectionFailed(a, str_exc(error))
      [] IsHTTPStatusError(error.cls) ->
            IF error.status = 429
            THEN RateLimited(a, error.retry_after)
            ELSE HttpError(a, error.status, str_exc(error))
      [] OTHER -> ConnectionFailed(a, str_exc(error))

(***************************************************************************)
(* The statements shared by the four try blocks                            *)
(***************************************************************************)
\* Response.is_success, which raise_for_status() tests
is_success(status) == 200 <= status /\ status <= 299

\* response = await client.get(...); response.raise_for_status();
\* data = response.json()  -- yields the data or the exception raised
Data(d) == [kind |-> "Data", data |-> d]
request_json(o) ==
    IF o.o = "raise" THEN Raised(Exc(o.cls, 0, <<>>))
    ELSE IF ~is_success(o.status)
         THEN Raised(Exc("HTTPStatusError", o.status, o.retry_after))
    ELSE IF o.body = Undecodable THEN Raised(Exc("JSONDecodeError", 0, <<>>))
    ELSE Data(o.body)

\* faulty variant: a falsy url is not rejected
fetch_cat_try_no_url_check(o) ==
    IF o.o = "response" /\ is_success(o.status) /\ o.body.t = "arr"
       /\ Len(o.body.items) > 0 /\ o.body.items[1].t = "obj"
       /\ \E i \in 1..Len(o.body.items[1].fields) : o.body.items[1].fields[i][1] = "url"
    THEN Ok(AnimalImage(dict_get(o.body.items[1], "url", JNull), "cat"))
    ELSE IF o.o = "raise" THEN Raised(Exc(o.cls, 0, <<>>))
    ELSE IF ~is_success(o.status)
         THEN Raised(Exc("HTTPStatusError", o.status, o.retry_after))
    ELSE Err(ParseError("cat", Text("No 'url' field in response", JNull)))

\* faulty variant: only `except httpx.HTTPError`, no `except Exception`
except_clauses_http_only(r, a) ==
    IF r.kind # "Raised" THEN r
    ELSE IF IsHTTPError(r.exc.cls) THEN Err(_handle_httpx_error(r.exc, a))
    ELSE r

\* faulty variant: a bare `except:` in place of `except Exception`
except_clauses_bare(r, a) ==
    IF r.kind # "Raised" THEN r
    ELSE IF IsHTTPError(r.exc.cls) THEN Err(_handle_httpx_error(r.exc, a))
    ELSE Err(ParseError(a, str_exc(r.exc)))

\* except httpx.HTTPError as e: ... / except Exception as e: ...
except_clauses(r, a) ==
    IF r.kind # "Raised" THEN r
    ELSE IF IsHTTPError(r.exc.cls) THEN Err(_handle_httpx_error(r.exc, a))
    ELSE IF IsException(r.exc.cls) THEN Err(ParseError(a, str_exc(r.exc)))
    ELSE r

(***************************************************************************)
(* fetch_duck                                                              *)
(***************************************************************************)
\* the try block of fetch_duck after the GET completed with outcome o
fetch_duck_try(o) ==
    LET r == request_json(o) IN
    IF r.kind = "Raised" THEN r
    ELSE IF r.data.t # "obj" THEN Raised(Exc("AttributeError", 0, <<>>))
    ELSE LET url == dict_get(r.data, "url", JNull) IN
         IF ~truthy(url)
         THEN Err(ParseError("duck", Text("No 'url' field in response", JNull)))
         ELSE Ok(AnimalImage(url, "duck"))

fetch_duck_result(o) == except_clauses(fetch_duck_try(o), "duck")

(***************************************************************************)
(* fetch_cat                                                               *)
(***************************************************************************)
fetch_cat_try(o) ==
    LET r == request_json(o) IN
    IF r.kind = "Raised" THEN r
    ELSE IF ~truthy(r.data)
         THEN Err(ParseError("cat", Text("Empty response from API", JNull)))
    \* len(data) of a number or a boolean
    ELSE IF r.data.t \in {"num", "bool"} THEN Raised(Exc("TypeError", 0, <<>>))
    \* data[0] of an object
    ELSE IF r.data.t = "obj" THEN Raised(Exc("KeyError", 0, <<>>))
    \* data[0] of a string is a string, which has no get
    ELSE IF r.data.t = "str" THEN Raised(Exc("AttributeError", 0, <<>>))
    ELSE LET first == r.data.items[1] IN
         IF first.t # "obj" THEN Raised(Exc("AttributeError", 0, <<>>))
         ELSE LET url == dict_get(first, "url", JNull) IN
              IF ~truthy(url)
              THEN Err(ParseError("cat", Text("No 'url' field in response", JNull)))
              ELSE Ok(AnimalImage(url, "cat"))

fetch_cat_result(o) == except_clauses(fetch_cat_try(o), "cat")

(***************************************************************************)
(* fetch_dog: _fetch_dog_primary, _fetch_dog_fallback                      *)
(***************************************************************************)
\* the try block of the two dog stages: they differ in the field read and
\* in the text of the error
dog_stage_try(o, field, text) ==
    LET r == request_json(o) IN
    IF r.kind = "Raised" THEN r
    ELSE IF r.data.t # "obj" THEN Raised(Exc("AttributeError", 0, <<>>))
    ELSE LET url == dict_get(r.data, field, JStr(<<>>)) IN
         IF ~truthy(url) THEN Err(ParseError("dog", Text(text, url)))
         \* url.lower() of a value that is not a string
         ELSE IF url.t # "str" THEN Raised(Exc("AttributeError", 0, <<>>))
         ELSE IF endswith(lower(url.s), IMAGE_EXTENSIONS)
              THEN Ok(AnimalImage(url, "dog"))
              ELSE Err(ParseError("dog", Text(text, url)))

\* faulty variant: the extension is compared without lower()
_fetch_dog_primary_case_sensitive(o) ==
    LET r == request_json(o) IN
    IF r.kind = "Raised" THEN except_clauses(r, "dog")
    ELSE IF r.data.t # "obj" THEN Err(ParseError("dog", Text("AttributeError", JNum(0))))
    ELSE LET url == dict_get(r.data, "url", JStr(<<>>)) IN
         IF truthy(url) /\ url.t = "str" /\ endswith(url.s, IMAGE_EXTENSIONS)
         THEN Ok(AnimalImage(url, "dog"))
         ELSE Err(ParseError("dog", Text("Invalid URL format: ", url)))

_fetch_dog_primary(o) ==
    except_clauses(dog_stage_try(o, "url", "Invalid URL format: "), "dog")

\* faulty variant: the fallback reads the primary's field
_fetch_dog_fallback_url_field(o) ==
    except_clauses(dog_stage_try(o, "url", "Invalid fallback URL: "), "dog")

_fetch_dog_fallback(o) ==
    except_clauses(dog_stage_try(o, "message", "Invalid fallback URL: "), "dog")

\* faulty variant: the fallback's error is returned
fetch_dog_return_fallback_error(primary, fallback) == fallback

\* the end of fetch_dog, once the fallback stage has returned
fetch_dog_return(primary, fallback) ==
    IF fallback.kind \in {"Ok", "Raised"} THEN fallback ELSE primary

(***************************************************************************)
(* fetch_animal                                                            *)
(***************************************************************************)
\* faulty variant: duck and cat are exchanged in the table
FETCHERS_swapped ==
    [duck |-> [pc |-> "cat_await", url |-> "cat_api_url"],
     dog  |-> [pc |-> "dog_primary_await", url |-> "dog_api_url"],
     cat  |-> [pc |-> "duck_await", url |-> "duck_api_url"]]

\* FETCHERS: the await position each fetcher starts at and the endpoint of
\* its first GET
FETCHERS ==
    [duck |-> [pc |-> "duck_await", url |-> "duck_api_url"],
     dog  |-> [pc |-> "dog_primary_await", url |-> "dog_api_url"],
     cat  |-> [pc |-> "cat_await", url |-> "cat_api_url"]]

\* names fetch_animal is called with
AnimalNames == {"duck", "dog", "cat", "giraffe"}

\* the characters of a name, for interpolation into a message
name_chars(a) ==
    CASE a = "duck" -> <<"d","u","c","k">>
      [] a = "dog" -> <<"d","o","g">>
      [] a = "cat" -> <<"c","a","t">>
      [] a = "giraffe" -> <<"g","i","r","a","f","f","e">>

(***************************************************************************)
(* The state machine of one fetch call                                     *)
(***************************************************************************)
\* an optional string (str | None): <<>> is None, <<s>> is the string s
None == <<>>
Some(s) == <<s>>
\* AnimalRequest(query, animal) (web.py)
AnimalRequest(query, a) == [query |-> query, animal |-> a]
\* no request is being handled
NoRequest == [body |-> AnimalRequest(None, None), animal |-> None, query |-> <<>>]
\* the tool has not returned
NoReply == [kind |-> "None"]
\* no error value
NoError == [tag |-> "None", animal |-> ""]
\* no message (None)
NoText == Text("", JNull)
\* no GET completed yet
NoOutcome ==
    [o |-> "none", cls |-> "", status |-> 0, retry_after |-> <<>>, body |-> JNull]
\* the APIs check_all_apis probes, in the order of its `apis` list
ProbeNames == <<"duck", "dog", "cat">>
\* a check_api_health coroutine that does not exist yet
NoProbe == [st |-> "none", o |-> NoOutcome, status |-> NoResult]

Init ==
    /\ pc = "idle"
    /\ animal = ""
    /\ requests = <<>>
    /\ inflight = {}
    /\ outcomes = <<>>
    /\ primary_result = NoResult
    /\ fallback_result = NoResult
    /\ result = NoResult
    /\ hc_pc = "idle"
    /\ probes = [i \in 1..Len(ProbeNames) |-> NoProbe]
    /\ health = NoResult
    /\ fmt_error = NoError
    /\ fmt_message = NoText
    /\ tool = ""
    /\ tool_reply = NoReply
    /\ mcp_http_client = "None"
    /\ web_pc = "idle"
    /\ web_req = NoRequest
    /\ web_response = NoReply
    /\ web_http_client = "None"
    /\ now = 0
    /\ limiters = [a \in {"duck", "dog", "cat"} |-> <<>>]
    /\ legacy_pc = "idle"
    /\ legacy_api = ""
    /\ legacy_gets = <<>>
    /\ legacy_reply = NoReply
    /\ legacy_calls = [a \in {"duck", "dog", "cat"} |-> 0]
    /\ wc_pc = "idle"
    /\ wc_request = [query |-> None, animal |-> None]
    /\ wc_forwarded = <<>>
    /\ wc_response = NoReply
    /\ mcp_client = "None"
    /\ ol_pc = "idle"
    /\ ol_posts = <<>>
    /\ ol_outcome = NoOutcome
    /\ ol_tool_calls = <<>>
    /\ ol_result = NoResult
    /\ calls = [i \in {1, 2} |-> [pc |-> "idle", animal |-> "", outcomes |-> <<>>, primary_result |-> NoResult, result |-> NoResult]]
    /\ seen = [animal |-> "", outcomes |-> <<>>, result |-> NoResult]
    /\ lh_pc = "idle"
    /\ lh_outcomes = <<>>
    /\ lh_results = <<>>
    /\ lh_report = NoResult
    /\ cl_pc = "idle"
    /\ cl_path = <<>>
    /\ session = "None"
    /\ cl_result = NoResult
    /\ cl_connects = 0
    /\ cl_connected = FALSE
    /\ rl_now = 0
    /\ rl_requests = [a \in {"duck", "dog", "cat"} |-> <<>>]
    /\ callers = [i \in {1, 2} |-> [pc |-> "idle", api |-> "", wake |-> 0]]
    /\ srv_http_client = 0
    /\ srv_constructed = 0
    /\ srv_tasks = [i \in {1, 2, 3} |-> [pc |-> "idle", tool |-> "", client |-> 0, at_call |-> 0]]
    /\ config_http_timeout = 10
    /\ tm_pc = "idle"
    /\ tm_gets = <<>>
    /\ tm_primary = [kind |-> "None"]
    /\ tm_result = [kind |-> "None"]
    /\ dog_legacy = [pc |-> "idle", gets |-> <<>>, reply |-> [kind |-> "None"]]
    /\ dog_new = [pc |-> "idle", gets |-> <<>>, reply |-> [kind |-> "None"]]
    /\ dog_answers = [primary |-> NoOutcome, fallback |-> NoOutcome]
    /\ dog_limiter = <<>>
    /\ dog_admitted = FALSE
    /\ dog_primary = [kind |-> "None"]

\* await client.get(url, ...): the request goes out
get_issue(url) ==
    /\ requests' = Append(requests, url)
    /\ inflight' = inflight \cup {url}

\* the awaited GET completes with outcome o
get_complete(url, o) ==
    /\ inflight' = inflight \ {url}
    /\ outcomes' = Append(outcomes, o)

\* faulty variant: fetch_dog starts both of its GETs together
fetcher_call_parallel(a) ==
    /\ requests' = IF a = "dog"
                   THEN requests \o <<FETCHERS[a].url, "dog_fallback_url">>
                   ELSE Append(requests, FETCHERS[a].url)
    /\ inflight' = IF a = "dog"
                   THEN inflight \cup {FETCHERS[a].url, "dog_fallback_url"}
                   ELSE inflight \cup {FETCHERS[a].url}
    /\ pc' = FETCHERS[a].pc
    /\ UNCHANGED <<outcomes, primary_result, fallback_result, result>>

\* the fetcher starts: up to its first await
fetcher_call(a) ==
    /\ get_issue(FETCHERS[a].url)
    /\ pc' = FETCHERS[a].pc
    /\ UNCHANGED <<outcomes, primary_result, fallback_result, result>>

\* fetch_animal(a, client, config)
fetch_animal(a) ==
    /\ pc = "idle"
    /\ animal' = a
    /\ IF a \notin DOMAIN FETCHERS
       THEN /\ result' = Err(ParseError(a, Text("Unknown animal type: ", JStr(name_chars(a)))))
            /\ pc' = "done"
            /\ UNCHANGED <<requests, inflight, outcomes, primary_result, fallback_result>>
       ELSE fetcher_call(a)

\* faulty variant: a timed-out GET is tried once more
fetch_duck_resume_retry(o) ==
    /\ pc = "duck_await"
    /\ outcomes' = Append(outcomes, o)
    /\ IF o.o = "raise" /\ IsTimeoutException(o.cls) /\ Len(requests) < 2
       THEN /\ requests' = Append(requests, "duck_api_url")
            /\ UNCHANGED <<pc, inflight, result>>
       ELSE /\ inflight' = inflight \ {"duck_api_url"}
            /\ result' = fetch_duck_result(o)
            /\ pc' = "done"
            /\ UNCHANGED requests
    /\ UNCHANGED <<animal, primary_result, fallback_result>>

\* fetch_duck resumes when its GET completes
fetch_duck_resume(o) ==
    /\ pc = "duck_await"
    /\ get_complete("duck_api_url", o)
    /\ result' = fetch_duck_result(o)
    /\ pc' = "done"
    /\ UNCHANGED <<animal, requests, primary_result, fallback_result>>

\* fetch_cat resumes when its GET completes
fetch_cat_resume(o) ==
    /\ pc = "cat_await"
    /\ get_complete("cat_api_url", o)
    /\ result' = fetch_cat_result(o)
    /\ pc' = "done"
    /\ UNCHANGED <<animal, requests, primary_result, fallback_result>>

\* fetch_dog resumes when the primary GET completes
fetch_dog_primary_resume(o) ==
    /\ pc = "dog_primary_await"
    /\ outcomes' = Append(outcomes, o)
    /\ LET r == _fetch_dog_primary(o) IN
       /\ primary_result' = r
       /\ IF r.kind \in {"Ok", "Raised"}
          THEN /\ result' = r
               /\ pc' = "done"
               /\ inflight' = inflight \ {"dog_api_url"}
               /\ UNCHANGED requests
          ELSE \* "Primary dog API failed, trying fallback"
               /\ requests' = Append(requests, "dog_fallback_url")
               /\ inflight' = (inflight \ {"dog_api_url"}) \cup {"dog_fallback_url"}
               /\ pc' = "dog_fallback_await"
               /\ UNCHANGED result
    /\ UNCHANGED <<animal, fallback_result>>

\* fetch_dog resumes when the fallback GET completes
fetch_dog_fallback_resume(o) ==
    /\ pc = "dog_fallback_await"
    /\ get_complete("dog_fallback_url", o)
    /\ fallback_result' = _fetch_dog_fallback(o)
    /\ result' = fetch_dog_return(primary_result, fallback_result')
    /\ pc' = "done"
    /\ UNCHANGED <<animal, requests, primary_result>>

\* the caller has the result; the next call starts from scratch
call_returns ==
    /\ pc = "done"
    /\ pc' = "idle"
    /\ animal' = ""
    /\ requests' = <<>>
    /\ inflight' = {}
    /\ outcomes' = <<>>
    /\ primary_result' = NoResult
    /\ fallback_result' = NoResult
    /\ result' = NoResult

\* the fetchers called on their own: nothing else in the process moves
Next ==
    \/ \E a \in AnimalNames : fetch_animal(a) /\ UNCHANGED layerVars
    \/ \E o \in Outcomes : fetch_duck_resume(o) /\ UNCHANGED layerVars
    \/ \E o \in Outcomes : fetch_cat_resume(o) /\ UNCHANGED layerVars
    \/ \E o \in Outcomes : fetch_dog_primary_resume(o) /\ UNCHANGED layerVars
    \/ \E o \in Outcomes : fetch_dog_fallback_resume(o) /\ UNCHANGED layerVars
    \/ call_returns /\ UNCHANGED layerVars

Spec == Init /\ [][Next]_vars

\* every GET is issued with timeout=config.http_timeout, so each awaited GET
\* completes: with a response or with an exception
GetsComplete ==
    /\ WF_vars(\E o \in Outcomes : fetch_duck_resume(o) /\ UNCHANGED layerVars)
    /\ WF_vars(\E o \in Outcomes : fetch_cat_resume(o) /\ UNCHANGED layerVars)
    /\ WF_vars(\E o \in Outcomes : fetch_dog_primary_resume(o) /\ UNCHANGED layerVars)
    /\ WF_vars(\E o \in Outcomes : fetch_dog_fallback_resume(o) /\ UNCHANGED layerVars)

FairSpec == Spec /\ GetsComplete

TypeOK ==
    /\ pc \in {"idle", "duck_await", "cat_await", "dog_primary_await",
               "dog_fallback_await", "done"}
    /\ result.kind \in {"None", "Ok", "Err", "Raised"}
    /\ Len(outcomes) <= Len(requests)

(***************************************************************************)
(* Vocabulary of the properties                                            *)
(***************************************************************************)
\* the string ends in one of the image extensions, whatever the case
HasImageExtension(str) ==
    \E ext \in IMAGE_EXTENSIONS :
        /\ Len(ext) <= Len(str)
        /\ \A i \in 1..Len(ext) : lower_char(str[Len(str) - Len(ext) + i]) = ext[i]

\* the endpoint answered with a JSON object whose `field` is a string
\* ending in an image extension
AnswersImage(o, field) ==
    /\ o.o = "response"
    /\ o.status \in 200..299
    /\ o.body.t = "obj"
    /\ \E i \in 1..Len(o.body.fields) :
          /\ o.body.fields[i][1] = field
          /\ o.body.fields[i][2].t = "str"
          /\ HasImageExtension(o.body.fields[i][2].s)

\* the value of `field` in the object the endpoint answered with
AnsweredField(o, field) ==
    o.body.fields[CHOOSE i \in 1..Len(o.body.fields) : o.body.fields[i][1] = field][2]

\* the caller cancelled the call while the GET was in flight
Cancelled(o) == o.o = "raise" /\ o.cls \in BaseExceptions

TimedOut(o)       == o.o = "raise" /\ o.cls \in {"ConnectTimeout", "ReadTimeout"}
ConnectFailure(o) == o.o = "raise" /\ o.cls = "ConnectError"
StatusError(o)    == o.o = "response" /\ ~(o.status \in 200..299)

\* str.startswith(prefix)
startswith(s, pre) ==
    /\ Len(pre) <= Len(s)
    /\ SubSeq(s, 1, Len(pre)) = pre

\* str.strip() == "" : the string is empty or consists of whitespace only
isblank(s) == \A i \in 1..Len(s) : s[i] \in {" ", "\t", "\n"}

\* the URL of an Ok result is a string with an http(s) scheme
HasHttpScheme(v) ==
    /\ v.t = "str"
    /\ \/ startswith(v.s, <<"h","t","t","p",":","/","/">>)
       \/ startswith(v.s, <<"h","t","t","p","s",":","/","/">>)

(***************************************************************************)
(* C1: fetch_dog - whenever the primary endpoint answers with a JSON       *)
(* object whose `url` ends in .jpg/.jpeg/.png/.gif/.webp (in any case),    *)
(* the call returns Ok with exactly that URL and animal "dog", and the     *)
(* fallback endpoint is never requested during that call.                  *)
(***************************************************************************)
C1_PrimaryImageIsReturned ==
    (animal = "dog" /\ Len(outcomes) >= 1 /\ AnswersImage(outcomes[1], "url"))
    => /\ pc = "done"
       /\ result = Ok(AnimalImage(AnsweredField(outcomes[1], "url"), "dog"))
       /\ requests = <<"dog_api_url">>

\* the primary answered with an upper-case extension and was returned
C1_Witness ==
    /\ pc = "done" /\ animal = "dog"
    /\ AnswersImage(outcomes[1], "url")
    /\ endswith(AnsweredField(outcomes[1], "url").s, {<<".","J","P","G">>})
    /\ result.kind = "Ok"

(***************************************************************************)
(* C2: fetch_dog - for every way the primary attempt can be unusable       *)
(* (missing `url`, URL without image extension, malformed body, transport  *)
(* error, error status), the fallback is asked, and if it answers with a   *)
(* JSON object whose `message` ends in an image extension the call returns *)
(* Ok with the fallback's URL and animal "dog".                            *)
(***************************************************************************)
C2_FallbackImageIsReturned ==
    (animal = "dog" /\ Len(outcomes) >= 1
       /\ ~AnswersImage(outcomes[1], "url") /\ ~Cancelled(outcomes[1]))
    => /\ requests = <<"dog_api_url", "dog_fallback_url">>
       /\ (Len(outcomes) = 2 /\ AnswersImage(outcomes[2], "message"))
          => /\ pc = "done"
             /\ result = Ok(AnimalImage(AnsweredField(outcomes[2], "message"), "dog"))

\* the primary timed out and the fallback's image was returned
C2_Witness ==
    /\ pc = "done" /\ animal = "dog" /\ Len(outcomes) = 2
    /\ TimedOut(outcomes[1])
    /\ AnswersImage(outcomes[2], "message")
    /\ result.kind = "Ok"

(***************************************************************************)
(* C3: fetch_dog - when both the primary and the fallback attempt fail,    *)
(* the call returns Err carrying the error the primary attempt produced    *)
(* (kind and fields), and the error's animal is "dog".                     *)
(***************************************************************************)
C3_BothFailReturnsPrimaryError ==
    (pc = "done" /\ animal = "dog" /\ Len(outcomes) = 2
       /\ ~AnswersImage(outcomes[2], "message") /\ ~Cancelled(outcomes[2]))
    => /\ result.kind = "Err"
       /\ result = primary_result
       /\ result = _fetch_dog_primary(outcomes[1])
       /\ result.error.animal = "dog"

\* primary and fallback failed in different ways
C3_Witness ==
    /\ pc = "done" /\ animal = "dog" /\ Len(outcomes) = 2
    /\ StatusError(outcomes[1]) /\ outcomes[1].status = 503
    /\ TimedOut(outcomes[2])
    /\ fallback_result.kind = "Err" /\ fallback_result.error.tag = "NetworkTimeout"
    /\ result.kind = "Err" /\ result.error.tag = "HttpError"

(***************************************************************************)
(* C4: within one fetch_dog call at most two GETs are issued, never two    *)
(* in flight at once, and the fallback GET is issued only after the        *)
(* primary GET completed with a failure or an invalid URL.                 *)
(***************************************************************************)
C4_DogGetsAreSequential ==
    animal = "dog"
    => /\ Len(requests) <= 2
       /\ Cardinality(inflight) <= 1
       /\ Len(requests) - Len(outcomes) <= 1
       /\ \A i \in 1..Len(requests) :
             requests[i] = "dog_fallback_url"
             => /\ i = 2 /\ requests[1] = "dog_api_url"
                /\ "dog_api_url" \notin inflight
                /\ Len(outcomes) >= 1
                /\ ~AnswersImage(outcomes[1], "url")

\* the fallback GET is in flight after the primary completed
C4_Witness ==
    /\ animal = "dog" /\ pc = "dog_fallback_await"
    /\ inflight = {"dog_fallback_url"}
    /\ Len(outcomes) = 1

(***************************************************************************)
(* C5: for every animal and every transport response, if a fetch returns   *)
(* Ok then the URL in it starts with http:// or https://.                  *)
(* The fetchers do not look at the scheme: fetch_duck answers              *)
(* {"url": "ftp://x"} with Ok.                                             *)
(***************************************************************************)
C5_OkUrlHasHttpScheme ==
    (pc = "done" /\ result.kind = "Ok") => HasHttpScheme(result.value.url)

(***************************************************************************)
(* C6: for every animal and every transport response, a fetch never        *)
(* returns Ok with an empty or whitespace-only URL.                        *)
(* `if not url` rejects the empty string only: fetch_duck and fetch_cat    *)
(* answer {"url": " "} with Ok.                                            *)
(***************************************************************************)
C6_OkUrlIsNotBlank ==
    (pc = "done" /\ result.kind = "Ok")
    => ~(result.value.url.t = "str" /\ isblank(result.value.url.s))

(***************************************************************************)
(* C7: fetch_duck, fetch_dog, fetch_cat never raise for a timeout, a       *)
(* connect failure, an HTTP status, an undecodable or mis-shaped body or   *)
(* any other Exception of the transport: the call ends by returning Ok or  *)
(* Err, and an Err carries one of the five error values the classifier     *)
(* and the fetchers build.                                                 *)
(***************************************************************************)
C7_Returned ==
    (pc = "done" /\ \A i \in 1..Len(outcomes) : ~Cancelled(outcomes[i]))
    => /\ result.kind \in {"Ok", "Err"}
       /\ result.kind = "Err"
          => result.error.tag \in {"NetworkTimeout", "RateLimited", "HttpError",
                                   "ConnectionFailed", "ParseError"}

C7_ExpectedFailuresAreReturned ==
    /\ []C7_Returned
    /\ (pc # "idle") ~> (pc = "done")

\* a body that is not JSON, and one of the wrong shape, were returned as Err
C7_Witness ==
    /\ pc = "done" /\ animal = "dog" /\ Len(outcomes) = 2
    /\ outcomes[1].o = "response" /\ outcomes[1].body = Undecodable
    /\ outcomes[2].o = "response" /\ outcomes[2].status = 200
    /\ outcomes[2].body.t = "arr"
    /\ result.kind = "Err"

(***************************************************************************)
(* C8: fetch_duck and fetch_cat issue exactly one GET per call; when it    *)
(* times out the call returns Err(NetworkTimeout) in the same step,        *)
(* without a further request.                                              *)
(***************************************************************************)
C8_OneGetAndTimeoutReturnsAtOnce ==
    animal \in {"duck", "cat"}
    => /\ Len(requests) = 1
       /\ Len(outcomes) <= 1
       /\ Len(outcomes) = 1
          => /\ pc = "done"
             /\ inflight = {}
             /\ TimedOut(outcomes[1])
                => /\ result.kind = "Err"
                   /\ result.error.tag = "NetworkTimeout"
                   /\ result.error.animal = animal

\* the one GET of fetch_cat timed out
C8_Witness ==
    /\ pc = "done" /\ animal = "cat"
    /\ requests = <<"cat_api_url">>
    /\ Len(outcomes) = 1 /\ TimedOut(outcomes[1])
    /\ result.kind = "Err" /\ result.error.tag = "NetworkTimeout"

(***************************************************************************)
(* C9: error classification, for every animal: a timeout yields            *)
(* NetworkTimeout, a connect failure ConnectionFailed, an HTTP 429         *)
(* RateLimited, every other non-2xx status s HttpError with status_code s; *)
(* the error's animal is the animal being fetched.                         *)
(***************************************************************************)
\* error e is the classification of transport outcome o for animal a
Classified(o, e, a) ==
    /\ e.animal = a
    /\ TimedOut(o) => e.tag = "NetworkTimeout"
    /\ ConnectFailure(o) => e.tag = "ConnectionFailed"
    /\ (StatusError(o) /\ o.status = 429) => e.tag = "RateLimited"
    /\ (StatusError(o) /\ o.status # 429)
       => (e.tag = "HttpError" /\ e.status_code = o.status)

\* the error of the first GET of the call, once it is known to have failed
FirstError ==
    IF animal = "dog" THEN primary_result.error ELSE result.error

C9_ErrorClassification ==
    /\ (pc = "done" /\ result.kind = "Err") => result.error.animal = animal
    /\ (animal \in {"duck", "cat"} /\ pc = "done" /\ result.kind = "Err")
       => Classified(outcomes[1], result.error, animal)
    /\ (animal = "dog" /\ primary_result.kind = "Err")
       => Classified(outcomes[1], primary_result.error, "dog")
    /\ (animal = "dog" /\ fallback_result.kind = "Err")
       => Classified(outcomes[2], fallback_result.error, "dog")
    /\ (animal \in {"duck", "dog", "cat"} /\ Len(outcomes) >= 1
          /\ (TimedOut(outcomes[1]) \/ ConnectFailure(outcomes[1]) \/ StatusError(outcomes[1])))
       => (IF animal = "dog" THEN primary_result.kind ELSE result.kind) = "Err"

\* a 429 and a 503 were classified
C9_Witness ==
    /\ pc = "done" /\ animal = "dog" /\ Len(outcomes) = 2
    /\ StatusError(outcomes[1]) /\ outcomes[1].status = 429
    /\ StatusError(outcomes[2]) /\ outcomes[2].status = 503
    /\ result.kind = "Err" /\ result.error.tag = "RateLimited"

(***************************************************************************)
(* C10: every failure of a fetch that is not a timeout, a connect failure  *)
(* or an HTTP status error is returned as ParseError for the animal.       *)
(* As stated it fails: an httpx.HTTPError of another class (ReadError,     *)
(* TooManyRedirects, DecodingError) falls to the classifier's catch-all    *)
(* case and is returned as ConnectionFailed.                               *)
(***************************************************************************)
\* the first GET failed, and not by timeout, connect failure or status
OtherFailure ==
    /\ animal \in {"duck", "dog", "cat"}
    /\ Len(outcomes) >= 1
    /\ ~Cancelled(outcomes[1])
    /\ ~TimedOut(outcomes[1]) /\ ~ConnectFailure(outcomes[1]) /\ ~StatusError(outcomes[1])
    /\ (IF animal = "dog" THEN primary_result.kind ELSE result.kind) = "Err"

\* the transport raised an httpx.HTTPError of a class the classifier has no case for
OtherHttpxError(o) == o.o = "raise" /\ o.cls \in OtherHTTPErrors

C10_Original_OtherFailuresAreParseErrors ==
    OtherFailure => (FirstError.tag = "ParseError" /\ FirstError.animal = animal)

(***************************************************************************)
(* C10 as amended: such a failure is returned as ParseError for the animal *)
(* when it is a JSON decode failure, an unexpected shape or an exception   *)
(* that is not an httpx.HTTPError, and as ConnectionFailed for the animal  *)
(* when it is any other httpx.HTTPError.                                   *)
(***************************************************************************)
C10_OtherFailuresParseOrConnection ==
    OtherFailure
    => /\ FirstError.animal = animal
       /\ FirstError.tag = IF OtherHttpxError(outcomes[1])
                           THEN "ConnectionFailed" ELSE "ParseError"

\* a read error was classified ConnectionFailed and an undecodable body ParseError
C10_Witness ==
    /\ pc = "done" /\ animal = "dog" /\ Len(outcomes) = 2
    /\ OtherHttpxError(outcomes[1])
    /\ outcomes[2].o = "response" /\ outcomes[2].body = Undecodable
    /\ primary_result.kind = "Err" /\ primary_result.error.tag = "ConnectionFailed"
    /\ fallback_result.kind = "Err" /\ fallback_result.error.tag = "ParseError"

(***************************************************************************)
(* C11: when an HTTP 429 is classified, RateLimited.retry_after is the     *)
(* Retry-After header value unchanged when the header is present, and      *)
(* absent when the header is missing.                                      *)
(***************************************************************************)
\* result r of a GET that ended in outcome o carries o's Retry-After header
CarriesRetryAfter(o, r, a) ==
    (StatusError(o) /\ o.status = 429) => r = Err(RateLimited(a, o.retry_after))

C11_RetryAfterIsCopied ==
    /\ (animal \in {"duck", "cat"} /\ pc = "done")
       => CarriesRetryAfter(outcomes[1], result, animal)
    /\ (animal = "dog" /\ Len(outcomes) >= 1)
       => CarriesRetryAfter(outcomes[1], primary_result, "dog")
    /\ (animal = "dog" /\ Len(outcomes) = 2)
       => CarriesRetryAfter(outcomes[2], fallback_result, "dog")

\* a 429 with an HTTP-date header, and one without the header, were classified
C11_Witness ==
    /\ pc = "done" /\ animal = "dog" /\ Len(outcomes) = 2
    /\ outcomes[1].status = 429 /\ outcomes[1].retry_after = << <<"W","e","d">> >>
    /\ outcomes[2].status = 429 /\ outcomes[2].retry_after = <<>>
    /\ result.kind = "Err" /\ result.error.tag = "RateLimited"
    /\ result.error.retry_after = << <<"W","e","d">> >>
    /\ fallback_result.error.retry_after = <<>>

(***************************************************************************)
(* C12: fetch_cat returns Ok with url u exactly when the response body is  *)
(* a non-empty JSON array whose first element has a `url` field u; any     *)
(* other body yields Err(ParseError) for cat.                              *)
(* As stated it fails: a first element whose `url` is empty, null, 0 or    *)
(* false has the field, and fetch_cat answers it with ParseError.          *)
(***************************************************************************)
\* fetch_cat got a response with a success status
CatAnswered ==
    /\ animal = "cat" /\ pc = "done"
    /\ outcomes[1].o = "response" /\ outcomes[1].status \in 200..299

\* the body is a non-empty array whose first element is an object with `url`
CatShape(b) ==
    /\ b.t = "arr" /\ Len(b.items) >= 1
    /\ b.items[1].t = "obj"
    /\ \E i \in 1..Len(b.items[1].fields) : b.items[1].fields[i][1] = "url"

\* the value of that `url` field
CatUrl(b) == AnsweredField([body |-> b.items[1]], "url")

IsCatParseError(r) ==
    r.kind = "Err" /\ r.error.tag = "ParseError" /\ r.error.animal = "cat"

C12_Original_CatOkIffShape ==
    CatAnswered
    => IF CatShape(outcomes[1].body)
       THEN result = Ok(AnimalImage(CatUrl(outcomes[1].body), "cat"))
       ELSE IsCatParseError(result)

(***************************************************************************)
(* C12 as amended: fetch_cat returns Ok with url u exactly when the        *)
(* response body is a non-empty JSON array whose first element has a       *)
(* `url` field with a non-empty (truthy) value u; any other body yields    *)
(* Err(ParseError) for cat.                                                *)
(***************************************************************************)
\* the value is not null, false, 0, "" or an empty container
NonEmptyValue(v) ==
    ~(\/ v.t = "null"
      \/ (v.t \in {"bool", "num"} /\ v.n = 0)
      \/ (v.t = "str" /\ v.s = <<>>)
      \/ (v.t = "arr" /\ v.items = <<>>)
      \/ (v.t = "obj" /\ v.fields = <<>>))

C12_CatOkIffNonEmptyUrl ==
    CatAnswered
    => IF CatShape(outcomes[1].body) /\ NonEmptyValue(CatUrl(outcomes[1].body))
       THEN result = Ok(AnimalImage(CatUrl(outcomes[1].body), "cat"))
       ELSE IsCatParseError(result)

\* an empty array, and an array whose first url is empty, were both rejected
C12_Witness ==
    /\ CatAnswered
    /\ CatShape(outcomes[1].body)
    /\ CatUrl(outcomes[1].body) = JStr(<<>>)
    /\ IsCatParseError(result)

(***************************************************************************)
(* C13: fetch_animal called with a name that is not duck, dog or cat       *)
(* returns Err(ParseError), raises nothing and issues no request; called   *)
(* with a supported name it returns exactly what that animal's fetcher     *)
(* returns.                                                                *)
(***************************************************************************)
C13_FetchAnimalDispatch ==
    /\ (animal # "" /\ animal \notin {"duck", "dog", "cat"})
       => /\ pc = "done"
          /\ result.kind = "Err" /\ result.error.tag = "ParseError"
          /\ result.error.animal = animal
          /\ requests = <<>> /\ inflight = {}
    /\ (pc = "done" /\ animal = "duck")
       => (requests = <<"duck_api_url">> /\ result = fetch_duck_result(outcomes[1]))
    /\ (pc = "done" /\ animal = "cat")
       => (requests = <<"cat_api_url">> /\ result = fetch_cat_result(outcomes[1]))
    /\ (pc = "done" /\ animal = "dog")
       => /\ requests[1] = "dog_api_url"
          /\ result = IF Len(outcomes) = 1 THEN _fetch_dog_primary(outcomes[1])
                      ELSE fetch_dog_return(_fetch_dog_primary(outcomes[1]),
                                            _fetch_dog_fallback(outcomes[2]))

\* giraffe was refused without a request
C13_Witness ==
    /\ pc = "done" /\ animal = "giraffe"
    /\ result.kind = "Err" /\ requests = <<>>

(***************************************************************************)
(* check_api_health and check_all_apis (server.py)                         *)
(***************************************************************************)
\* a coroutine returned value v to its caller
Returned(v) == [kind |-> "Returned", value |-> v]

\* HealthStatus(api, healthy, response_time_ms, error); the elapsed time is
\* a clock reading and is left out; error None is NoText
HealthStatus(api, healthy, error) ==
    [api |-> api, healthy |-> healthy, error |-> error]

\* OverallHealth(status, apis)
OverallHealth(status, apis) == [status |-> status, apis |-> apis]

\* what the health probes' GETs end with: a status line or an exception
ProbeOutcomes ==
    { Response(st, <<>>, JNull) : st \in {200, 201, 404, 503} } \cup
    { Raises(cls) : cls \in {"ReadTimeout", "ConnectError", "RuntimeError",
                             "CancelledError"} }

\* faulty variant: any 2xx status counts as healthy
check_api_health_any_2xx(name, o) ==
    IF o.o = "response"
    THEN IF o.status \in 200..299
         THEN Returned(HealthStatus(name, TRUE, NoText))
         ELSE Returned(HealthStatus(name, FALSE, Text("Status ", JNum(o.status))))
    ELSE IF IsException(o.cls)
    THEN Returned(HealthStatus(name, FALSE, str_exc(Exc(o.cls, 0, <<>>))))
    ELSE Raised(Exc(o.cls, 0, <<>>))

\* check_api_health(name, url, client, timeout), from the completion of its GET
check_api_health(name, o) ==
    IF o.o = "response"
    THEN IF o.status = 200
         THEN Returned(HealthStatus(name, TRUE, NoText))
         ELSE Returned(HealthStatus(name, FALSE, Text("Status ", JNum(o.status))))
    ELSE IF IsException(o.cls)
    THEN Returned(HealthStatus(name, FALSE, str_exc(Exc(o.cls, 0, <<>>))))
    ELSE Raised(Exc(o.cls, 0, <<>>))

\* sum(1 for r in results if r.healthy)
healthy_count(results) == Cardinality({i \in 1..Len(results) : results[i].healthy})

\* the status check_all_apis derives from the gathered results
overall_status(results) ==
    IF healthy_count(results) = Len(results) THEN "healthy"
    ELSE IF healthy_count(results) > 0 THEN "degraded"
    ELSE "unhealthy"

\* check_all_apis(client, config): asyncio.gather creates one
\* check_api_health task per API
check_all_apis_call ==
    /\ hc_pc = "idle"
    /\ hc_pc' = "gathering"
    /\ probes' = [i \in 1..Len(ProbeNames) |-> [NoProbe EXCEPT !.st = "created"]]
    /\ UNCHANGED <<health, notHealthVars>>

\* a probe task runs up to `await client.get(url, timeout=timeout)`
check_api_health_start(i) ==
    /\ probes[i].st = "created"
    /\ probes' = [probes EXCEPT ![i].st = "inflight"]
    /\ UNCHANGED <<hc_pc, health, notHealthVars>>

\* a probe's GET completes and the probe task finishes
check_api_health_resume(i, o) ==
    /\ probes[i].st = "inflight"
    /\ probes' = [probes EXCEPT ![i] =
                    [st |-> "done", o |-> o,
                     status |-> check_api_health(ProbeNames[i], o)]]
    /\ UNCHANGED <<hc_pc, health, notHealthVars>>

\* gather hands over the results once every task is done, or the first
\* exception a task let through
check_all_apis_return ==
    /\ hc_pc = "gathering"
    /\ LET raised == {i \in 1..Len(probes) : probes[i].status.kind = "Raised"} IN
       IF raised # {}
       THEN \E i \in raised : health' = probes[i].status
       ELSE /\ \A i \in 1..Len(probes) : probes[i].st = "done"
            /\ LET results == [i \in 1..Len(probes) |-> probes[i].status.value] IN
               health' = Returned(OverallHealth(overall_status(results), results))
    /\ hc_pc' = "done"
    /\ UNCHANGED <<probes, notHealthVars>>

\* the caller has the health report; the tasks are gone
health_returns ==
    /\ hc_pc = "done"
    /\ hc_pc' = "idle"
    /\ probes' = [i \in 1..Len(ProbeNames) |-> NoProbe]
    /\ health' = NoResult
    /\ UNCHANGED notHealthVars

HealthNext ==
    \/ check_all_apis_call
    \/ \E i \in 1..Len(ProbeNames) : check_api_health_start(i)
    \/ \E i \in 1..Len(ProbeNames), o \in ProbeOutcomes : check_api_health_resume(i, o)
    \/ check_all_apis_return
    \/ health_returns

HealthSpec == Init /\ [][HealthNext]_vars

\* the APIs whose probe was answered with HTTP 200
Answered200 ==
    {i \in 1..Len(probes) : probes[i].o.o = "response" /\ probes[i].o.status = 200}

\* some probe was cancelled while its GET was in flight
ProbeCancelled == \E i \in 1..Len(probes) : Cancelled(probes[i].o)

(***************************************************************************)
(* C14: check_all_apis probes duck, dog and cat concurrently; a probe is   *)
(* healthy iff its GET was answered with HTTP 200; the overall status is   *)
(* healthy iff all three probes are healthy, unhealthy iff none is and     *)
(* degraded otherwise; a failing probe (another status, a timeout, a       *)
(* connection or other error) never makes check_all_apis raise.            *)
(***************************************************************************)
C14_HealthAggregation ==
    /\ \* no probe's GET waits for another probe
       hc_pc = "gathering" =>
           \A i \in 1..Len(probes) :
               probes[i].st = "created" => ENABLED check_api_health_start(i)
    /\ (hc_pc = "done" /\ ~ProbeCancelled) =>
          /\ health.kind = "Returned"
          /\ Len(health.value.apis) = 3
          /\ \A i \in 1..3 :
                /\ health.value.apis[i].api = ProbeNames[i]
                /\ health.value.apis[i].healthy <=> i \in Answered200
          /\ health.value.status = "healthy" <=> Cardinality(Answered200) = 3
          /\ health.value.status = "unhealthy" <=> Cardinality(Answered200) = 0
          /\ health.value.status = "degraded" <=> Cardinality(Answered200) \in {1, 2}

\* duck answers 200, dog answers 201 and the cat probe fails to connect:
\* the check returns degraded
C14_Witness ==
    /\ hc_pc = "done"
    /\ probes[1].o = Response(200, <<>>, JNull)
    /\ probes[2].o = Response(201, <<>>, JNull)
    /\ probes[3].o = Raises("ConnectError")
    /\ health.kind = "Returned"
    /\ health.value.status = "degraded"

(***************************************************************************)
(* format_error_message (types.py)                                         *)
(***************************************************************************)
\* the error values format_error_message is called with: every variant,
\* for every animal name an error can carry, with a range of details
FormatStatuses == {301, 400, 404, 418, 499, 500, 501, 502, 503, 599}
FormatTimeouts == {5, 10, 30, 60}
FormatErrors ==
    { NetworkTimeout(a, t) : a \in AnimalNames, t \in FormatTimeouts } \cup
    { RateLimited(a, ra) : a \in AnimalNames, ra \in RetryAfterHeaders } \cup
    { HttpError(a, st, str_exc(Exc("HTTPStatusError", st, <<>>))) :
        a \in AnimalNames, st \in FormatStatuses } \cup
    { ConnectionFailed(a, str_exc(Exc(cls, 0, <<>>))) :
        a \in AnimalNames, cls \in ConnectErrors \cup OtherHTTPErrors } \cup
    { ParseError(a, d) : a \in AnimalNames,
        d \in { Text("No URL in response", JNull),
                Text("Empty response", JNull),
                Text("Unknown animal type: ", JStr(name_chars("giraffe"))),
                Text("Not an image URL: ", JStr(GoodUrl)),
                str_exc(Exc("JSONDecodeError", 0, <<>>)) } }

\* faulty variant: the status code is put into the sentence
format_error_message_with_status(error) ==
    LET a == JStr(name_chars(error.animal)) IN
    CASE error.tag = "RateLimited" ->
            Text("The {animal} API is busy right now. Please try again in a moment.", a)
      [] error.tag = "NetworkTimeout" ->
            Text("The {animal}s are being shy and taking their time. Please try again!", a)
      [] error.tag = "HttpError" ->
            Text("The API answered {code}. Please try again later.", JNum(error.status_code))
      [] error.tag = "ConnectionFailed" ->
            Text("Unable to connect to the {animal} API. Please check your connection.", a)
      [] error.tag = "ParseError" ->
            Text("Got an unexpected response from the {animal} API. Please try again.", a)
      [] OTHER -> Text("Something went wrong. Please try again later.", JNull)

\* format_error_message(error): the match statement, case by case
format_error_message(error) ==
    LET a == JStr(name_chars(error.animal)) IN
    CASE error.tag = "RateLimited" ->
            Text("The {animal} API is busy right now. Please try again in a moment.", a)
      [] error.tag = "NetworkTimeout" ->
            Text("The {animal}s are being shy and taking their time. Please try again!", a)
      [] error.tag = "HttpError" /\ error.status_code >= 500 ->
            Text("The {animal} API is temporarily unavailable. Please try again later.", a)
      [] error.tag = "HttpError" /\ error.status_code < 500 ->
            Text("The {animal} API is having issues. Please try again later.", a)
      [] error.tag = "ConnectionFailed" ->
            Text("Unable to connect to the {animal} API. Please check your connection.", a)
      [] error.tag = "ParseError" ->
            Text("Got an unexpected response from the {animal} API. Please try again.", a)
      [] OTHER -> Text("Something went wrong. Please try again later.", JNull)

\* format_error_message is called with an error and returns
format_call(error) ==
    /\ fmt_error = NoError
    /\ fmt_error' = error
    /\ fmt_message' = format_error_message(error)
    /\ UNCHANGED notFormatVars

\* the caller has the sentence
format_returns ==
    /\ fmt_error # NoError
    /\ fmt_error' = NoError
    /\ fmt_message' = NoText
    /\ UNCHANGED notFormatVars

FormatNext ==
    \/ \E error \in FormatErrors : format_call(error)
    \/ format_returns

FormatSpec == Init /\ [][FormatNext]_vars

\* the sentences that name the animal and nothing else
FriendlySentences ==
    { "The {animal} API is busy right now. Please try again in a moment.",
      "The {animal}s are being shy and taking their time. Please try again!",
      "The {animal} API is temporarily unavailable. Please try again later.",
      "The {animal} API is having issues. Please try again later.",
      "Unable to connect to the {animal} API. Please check your connection.",
      "Got an unexpected response from the {animal} API. Please try again." }

(***************************************************************************)
(* C15: for every APIError variant and every animal,                       *)
(* format_error_message returns a sentence that contains the animal's      *)
(* name and none of the error's internal details (status code, reason,     *)
(* details, timeout, retry-after); RateLimited gives the 'busy' sentence   *)
(* and an HttpError with status 500 or more the 'unavailable' sentence.    *)
(***************************************************************************)
C15_FriendlyMessage ==
    fmt_error # NoError =>
        /\ fmt_message.msg \in FriendlySentences
        /\ fmt_message.arg = JStr(name_chars(fmt_error.animal))
        /\ fmt_error.tag = "RateLimited" =>
              fmt_message.msg = "The {animal} API is busy right now. Please try again in a moment."
        /\ (fmt_error.tag = "HttpError" /\ fmt_error.status_code >= 500) =>
              fmt_message.msg = "The {animal} API is temporarily unavailable. Please try again later."

\* an HttpError 503 for cat gives the 'unavailable' sentence about cat
C15_Witness ==
    /\ fmt_error.tag = "HttpError"
    /\ fmt_error.animal = "cat"
    /\ fmt_error.status_code = 503
    /\ fmt_message = Text("The {animal} API is temporarily unavailable. Please try again later.",
                          JStr(<<"c","a","t">>))

(***************************************************************************)
(* The duck, dog and cat tools of create_mcp_server (server.py)            *)
(***************************************************************************)
\* FALLBACK_IMAGES (types.py)
FALLBACK_IMAGES ==
    [duck |-> <<"h","t","t","p","s",":","/","/","i",".","p","i","n","i","m",
              "g",".","c","o","m","/","7","3","6","x","/","c","2","/","1",
              "6","/","d","f","/","c","2","1","6","d","f","7","a","2","a",
              "f","5","d","c","7","3","7","c","9","b","2","0","4","1","e",
              "f","2","9","5","8","3","5",".","j","p","g">>,
     dog |-> <<"h","t","t","p","s",":","/","/","i","m","a","g","e","s",".",
              "d","o","g",".","c","e","o","/","b","r","e","e","d","s","/",
              "r","e","t","r","i","e","v","e","r","-","g","o","l","d","e",
              "n","/","n","0","2","0","9","9","6","0","1","_","1","0","0",
              "4",".","j","p","g">>,
     cat |-> <<"h","t","t","p","s",":","/","/","c","d","n","2",".","t","h",
              "e","c","a","t","a","p","i",".","c","o","m","/","i","m","a",
              "g","e","s","/","M","T","Y","3","O","D","I","y","M","Q",".",
              "j","p","g">>]

\* transport outcomes the callers of the fetchers are exercised with: every
\* exception, the body shapes the fetchers tell apart, and error statuses
\* with each Retry-After header
LayerBodies ==
    { JObj(<< <<"url", JStr(GoodUrl)>> >>),
      JObj(<< <<"url", JNum(5)>> >>),
      JObj(<< <<"message", JStr(GoodUrl)>> >>),
      JObj(<< <<"message", JStr(<<"x",".","m","p","4">>)>> >>),
      JArr(<< JObj(<< <<"url", JStr(GoodUrl)>> >>) >>),
      JArr(<<>>),
      Undecodable }
LayerOutcomes ==
    { Raises(cls) : cls \in TransportExceptions } \cup
    { Response(200, <<>>, b) : b \in LayerBodies } \cup
    { Response(st, ra, Undecodable) : st \in {404, 429, 503}, ra \in RetryAfterHeaders }

\* get_client(): the shared client is created on first use and kept
get_client(client) == IF client = "None" THEN "AsyncClient" ELSE client

\* what the tool returns for the fetcher's result: the match statement
tool_return_value(t, r) ==
    CASE r.kind = "Ok" -> Returned(r.value.url)
      [] r.kind = "Err" /\ t = "dog" -> Returned(JStr(FALLBACK_IMAGES["dog"]))
      [] r.kind = "Err" /\ t # "dog" -> Returned(format_error_message(r.error))
      [] r.kind = "Raised" -> r

\* tool t is called: get_client(), then the fetcher runs up to its first await
tool_call(t) ==
    /\ tool = ""
    /\ pc = "idle"
    /\ tool' = t
    /\ mcp_http_client' = get_client(mcp_http_client)
    /\ animal' = t
    /\ fetcher_call(t)
    /\ UNCHANGED <<tool_reply, notToolVars>>

\* the fetcher has returned: the tool matches on the result and returns
tool_return ==
    /\ tool # ""
    /\ pc = "done"
    /\ tool_reply = NoReply
    /\ tool_reply' = tool_return_value(tool, result)
    /\ UNCHANGED <<tool, mcp_http_client, fetchVars, notToolVars>>

\* the MCP client has the reply; the shared HTTP client stays
tool_done ==
    /\ tool_reply # NoReply
    /\ tool' = ""
    /\ tool_reply' = NoReply
    /\ call_returns
    /\ UNCHANGED <<mcp_http_client, notToolVars>>

ToolNext ==
    \/ \E t \in {"duck", "dog", "cat"} : tool_call(t)
    \/ \E o \in LayerOutcomes : fetch_duck_resume(o) /\ UNCHANGED layerVars
    \/ \E o \in LayerOutcomes : fetch_cat_resume(o) /\ UNCHANGED layerVars
    \/ \E o \in LayerOutcomes : fetch_dog_primary_resume(o) /\ UNCHANGED layerVars
    \/ \E o \in LayerOutcomes : fetch_dog_fallback_resume(o) /\ UNCHANGED layerVars
    \/ tool_return
    \/ tool_done

ToolSpec == Init /\ [][ToolNext]_vars

\* the value is a plain string: a sentence or a JSON string
IsPlainString(v) ==
    IF "msg" \in DOMAIN v THEN TRUE ELSE v.t = "str"

\* the tool was cancelled while a GET was in flight
ToolCancelled == \E i \in 1..Len(outcomes) : Cancelled(outcomes[i])

(***************************************************************************)
(* C17: the duck, dog and cat tools return a plain string for every fetch  *)
(* outcome and never raise: on Ok the image URL; on Err the duck and cat   *)
(* tools return format_error_message(error) and the dog tool returns       *)
(* FALLBACK_IMAGES["dog"]; so the dog tool always returns an image URL.    *)
(* It fails for the duck and cat tools: fetch_duck and fetch_cat accept    *)
(* any truthy `url` value (C5), so the tool returns a number or a list     *)
(* when the endpoint sent one.                                             *)
(***************************************************************************)
C17_ToolsReturnPlainString ==
    (tool_reply # NoReply /\ ~ToolCancelled) =>
        /\ tool_reply.kind = "Returned"
        /\ IsPlainString(tool_reply.value)
        /\ result.kind = "Ok" => tool_reply.value = result.value.url
        /\ (result.kind = "Err" /\ tool # "dog") =>
              tool_reply.value = format_error_message(result.error)
        /\ (result.kind = "Err" /\ tool = "dog") =>
              tool_reply.value = JStr(FALLBACK_IMAGES["dog"])
        /\ tool = "dog" =>
              /\ tool_reply.value.t = "str"
              /\ HasImageExtension(tool_reply.value.s)

(***************************************************************************)
(* POST /api/animal of petting_zootopia.web (web.py)                       *)
(***************************************************************************)

\* sub in s
contains(s, sub) ==
    \E i \in 1..(Len(s) - Len(sub) + 1) : SubSeq(s, i, i + Len(sub) - 1) = sub

\* extract_animal_from_query(query): the first key of FETCHERS, in the
\* order duck, dog, cat, that occurs in the lower-cased query
extract_animal_from_query(query) ==
    LET query_lower == lower(query) IN
    IF contains(query_lower, name_chars("duck")) THEN Some(name_chars("duck"))
    ELSE IF contains(query_lower, name_chars("dog")) THEN Some(name_chars("dog"))
    ELSE IF contains(query_lower, name_chars("cat")) THEN Some(name_chars("cat"))
    ELSE None

\* the key of FETCHERS spelled by the characters; "" when there is none
fetchers_key(chars) ==
    IF \E k \in DOMAIN FETCHERS : name_chars(k) = chars
    THEN CHOOSE k \in DOMAIN FETCHERS : name_chars(k) = chars
    ELSE ""

Digits == <<"0","1","2","3","4","5","6","7","8","9">>
is_digit(c) == \E i \in 1..Len(Digits) : Digits[i] = c
digit_value(c) == (CHOOSE i \in 1..Len(Digits) : Digits[i] = c) - 1

\* int(s) of a string of decimal digits
RECURSIVE digits_value(_)
digits_value(s) ==
    IF Len(s) = 0 THEN 0
    ELSE 10 * digits_value(SubSeq(s, 1, Len(s) - 1)) + digit_value(s[Len(s)])

\* int(s): the number, or ValueError for a string that is not a decimal numeral
int_of(s) ==
    IF Len(s) > 0 /\ \A i \in 1..Len(s) : is_digit(s[i])
    THEN Returned(digits_value(s))
    ELSE Raised(Exc("ValueError", 0, <<>>))

\* the wait the handler reports when the API sent no Retry-After
DEFAULT_RETRY_SECONDS == 60

\* the request bodies
WebQueries ==
    { None, Some(<<>>), Some(<<"h","e","l","l","o">>),
      Some(<<"a"," ","D","U","C","K"," ","a","n","d"," ","a"," ","c","a","t">>) }
WebAnimals ==
    { None, Some(<<>>), Some(<<"D","o","g">>), Some(name_chars("cat")),
      Some(name_chars("giraffe")) }
AnimalRequests == { AnimalRequest(q, a) : q \in WebQueries, a \in WebAnimals }

\* AnimalResponse(...).model_dump() and ErrorResponse(...).model_dump()
AnimalResponse(image_url, a, message) ==
    [success |-> TRUE, image_url |-> image_url, animal |-> a, message |-> message]
ErrorResponse(error, retry_after) ==
    [success |-> FALSE, error |-> error, retry_after |-> retry_after]

\* JSONResponse(status_code, headers={"Retry-After": ...}, content)
JSONResponse(status_code, retry_after, content) ==
    [status_code |-> status_code, retry_after |-> retry_after, content |-> content]

\* the locals `query` and `animal` the handler computes from the body
web_query(body) ==
    IF body.query # None /\ Len(body.query[1]) > 0 THEN body.query[1] ELSE <<>>
web_animal(body) ==
    IF body.animal # None /\ Len(body.animal[1]) > 0
    THEN Some(lower(body.animal[1]))
    ELSE IF Len(web_query(body)) > 0
    THEN extract_animal_from_query(web_query(body))
    ELSE None

\* `not animal or animal not in FETCHERS`
web_unknown_animal(a) ==
    a = None \/ Len(a[1]) = 0 \/ fetchers_key(a[1]) = ""

\* faulty variant: every fetch error is answered with the dog's fallback image
web_match_result_dog_fallback(a, query, r) ==
    CASE r.kind = "Ok" ->
            IF r.value.url.t = "str"
            THEN Returned(JSONResponse(200, None,
                    AnimalResponse(r.value.url, r.value.animal,
                        IF Len(query) > 0 THEN JStr(query)
                        ELSE Text("Here's a {animal}!", JStr(name_chars(a))))))
            ELSE Raised(Exc("ValidationError", 0, <<>>))
      [] r.kind = "Err" ->
            Returned(JSONResponse(200, None,
                AnimalResponse(JStr(FALLBACK_IMAGES["dog"]), a,
                    Text("Here's a {animal} (from our backup collection)!",
                         JStr(name_chars(a))))))
      [] r.kind = "Raised" -> r

\* the match statement on the result of fetch_animal
web_match_result(a, query, r) ==
    CASE r.kind = "Ok" ->
            \* AnimalResponse validates image_url: str
            IF r.value.url.t = "str"
            THEN Returned(JSONResponse(200, None,
                    AnimalResponse(r.value.url, r.value.animal,
                        IF Len(query) > 0 THEN JStr(query)
                        ELSE Text("Here's a {animal}!", JStr(name_chars(a))))))
            ELSE Raised(Exc("ValidationError", 0, <<>>))
      [] r.kind = "Err" /\ r.error.tag = "RateLimited" ->
            LET retry == r.error.retry_after
                retry_seconds == IF retry # None /\ Len(retry[1]) > 0
                                 THEN int_of(retry[1])
                                 ELSE Returned(DEFAULT_RETRY_SECONDS)
            IN IF retry_seconds.kind = "Raised" THEN retry_seconds
               ELSE Returned(JSONResponse(429, Some(retry_seconds.value),
                        ErrorResponse("External API rate limited. Please try again later.",
                                      Some(retry_seconds.value))))
      [] r.kind = "Err" /\ r.error.tag # "RateLimited" ->
            Returned(JSONResponse(200, None,
                AnimalResponse(JStr(IF a \in DOMAIN FALLBACK_IMAGES THEN FALLBACK_IMAGES[a]
                                    ELSE FALLBACK_IMAGES["dog"]), a,
                    Text("Here's a {animal} (from our backup collection)!",
                         JStr(name_chars(a))))))
      [] r.kind = "Raised" -> r

\* lifespan(): the shared client is created when the application starts
lifespan_startup ==
    /\ web_http_client = "None"
    /\ web_http_client' = "AsyncClient"
    /\ UNCHANGED <<web_pc, web_req, web_response, fetchVars, notWebVars>>

\* @limiter.limit(config.rate_limit): the request is over the limit and
\* slowapi's handler answers it; get_animal does not run
get_animal_limited(body) ==
    /\ web_pc = "idle"
    /\ web_pc' = "done"
    /\ web_req' = [NoRequest EXCEPT !.body = body]
    /\ web_response' = Returned(JSONResponse(429, None, [error |-> "Rate limit exceeded"]))
    /\ UNCHANGED <<web_http_client, fetchVars, notWebVars>>

\* get_animal(request, body), up to its return or to `await fetch_animal`
get_animal(body) ==
    /\ web_pc = "idle"
    /\ pc = "idle"
    /\ web_req' = [body |-> body, animal |-> web_animal(body), query |-> web_query(body)]
    /\ IF web_http_client = "None"
       THEN /\ web_response' = Returned(JSONResponse(503, None, [detail |-> "Server not ready"]))
            /\ web_pc' = "done"
            /\ UNCHANGED fetchVars
       ELSE IF web_unknown_animal(web_animal(body))
       THEN /\ web_response' = Returned(JSONResponse(400, None,
                    ErrorResponse(Text("Unknown animal. Supported: ", JStr(<<"d","u","c","k",","," ","d","o","g",","," ","c","a","t">>)), None)))
            /\ web_pc' = "done"
            /\ UNCHANGED fetchVars
       ELSE /\ fetch_animal(fetchers_key(web_animal(body)[1]))
            /\ web_pc' = "awaiting"
            /\ UNCHANGED web_response
    /\ UNCHANGED <<web_http_client, notWebVars>>

\* fetch_animal has returned: the handler matches on the result and answers
get_animal_resume ==
    /\ web_pc = "awaiting"
    /\ pc = "done"
    /\ web_response' = web_match_result(animal, web_req.query, result)
    /\ web_pc' = "done"
    /\ UNCHANGED <<web_req, web_http_client, fetchVars, notWebVars>>

\* the response has been sent
get_animal_done ==
    /\ web_pc = "done"
    /\ web_pc' = "idle"
    /\ web_req' = NoRequest
    /\ web_response' = NoReply
    /\ IF pc = "done" THEN call_returns ELSE UNCHANGED fetchVars
    /\ UNCHANGED <<web_http_client, notWebVars>>

WebNext ==
    \/ lifespan_startup
    \/ \E body \in AnimalRequests : get_animal_limited(body)
    \/ \E body \in AnimalRequests : get_animal(body)
    \/ \E o \in LayerOutcomes : fetch_duck_resume(o) /\ UNCHANGED layerVars
    \/ \E o \in LayerOutcomes : fetch_cat_resume(o) /\ UNCHANGED layerVars
    \/ \E o \in LayerOutcomes : fetch_dog_primary_resume(o) /\ UNCHANGED layerVars
    \/ \E o \in LayerOutcomes : fetch_dog_fallback_resume(o) /\ UNCHANGED layerVars
    \/ get_animal_resume
    \/ get_animal_done

WebSpec == Init /\ [][WebNext]_vars

\* the request was cancelled while a GET was in flight
WebCancelled == \E i \in 1..Len(outcomes) : Cancelled(outcomes[i])

\* the answer is one of the four structured responses
StructuredResponse(r) ==
    /\ r.kind = "Returned"
    /\ \/ r.value.status_code = 200 /\ r.value.content.success
       \/ r.value.status_code \in {400, 429, 503}

(***************************************************************************)
(* C16: POST /api/animal of petting_zootopia.web answers every request     *)
(* body and every fetch outcome, any Retry-After value included, with a    *)
(* structured response (success payload, 400, 429 or 503) and lets no      *)
(* exception through.                                                      *)
(* It fails: int(retry) raises ValueError when the Retry-After value       *)
(* copied from the API's 429 is not a decimal number (an HTTP date).       *)
(***************************************************************************)
C16_AlwaysStructuredResponse ==
    (web_pc = "done" /\ ~WebCancelled) => StructuredResponse(web_response)

\* fetch_animal returned an error for the animal the request named
WebFetchFailed ==
    /\ web_pc = "done"
    /\ pc = "done"
    /\ result.kind = "Err"

\* the response is the success payload carrying the animal's fallback image
IsFallbackPayload(r, a) ==
    /\ r.kind = "Returned"
    /\ r.value.status_code = 200
    /\ r.value.content.success
    /\ r.value.content.image_url = JStr(FALLBACK_IMAGES[a])
    /\ r.value.content.animal = a

api_rate_limiters ==
    [duck |-> [max_requests |-> 100, time_window |-> 3600],
     dog  |-> [max_requests |-> 1000, time_window |-> 3600],
     cat  |-> [max_requests |-> 10, time_window |-> 60]]

\* RateLimiter.max_backoff
max_backoff == 60

\* the seconds the clock advances by between two readings of time.time()
TickSeconds == 60

\* _clean_old_requests(current_time)
_clean_old_requests(reqs, time_window, current_time) ==
    SelectSeq(reqs, LAMBDA req_time : req_time > current_time - time_window)

\* min(self.requests)
oldest_request(reqs) ==
    CHOOSE t \in {reqs[i] : i \in 1..Len(reqs)} :
        \A i \in 1..Len(reqs) : t <= reqs[i]

\* RateLimitInfo(status, remaining, reset_time, retry_after), together with
\* the request list check_rate_limit leaves behind; retry_after None is 0
RateLimitInfo(status, remaining, reset_time, retry_after, reqs) ==
    [status |-> status, remaining |-> remaining, reset_time |-> reset_time,
     retry_after |-> retry_after, requests |-> reqs]

\* faulty variant: the limit is exceeded only beyond max_requests
check_rate_limit_off_by_one(reqs, lim, current_time) ==
    LET cleaned == _clean_old_requests(reqs, lim.time_window, current_time)
        remaining == lim.max_requests - Len(cleaned)
    IN IF Len(cleaned) > lim.max_requests
       THEN LET reset_time == oldest_request(cleaned) + lim.time_window IN
            RateLimitInfo("exceeded", 0, reset_time, reset_time - current_time, cleaned)
       ELSE IF 5 * Len(cleaned) >= 4 * lim.max_requests
       THEN RateLimitInfo("warning", remaining, current_time + lim.time_window, 0, cleaned)
       ELSE RateLimitInfo("ok", remaining, current_time + lim.time_window, 0, cleaned)

\* faulty variant: a full window is reported as a warning
check_rate_limit_warns(reqs, lim, current_time) ==
    LET cleaned == _clean_old_requests(reqs, lim.time_window, current_time)
        remaining == lim.max_requests - Len(cleaned)
    IN IF 5 * Len(cleaned) >= 4 * lim.max_requests
       THEN RateLimitInfo("warning", remaining, current_time + lim.time_window, 0, cleaned)
       ELSE RateLimitInfo("ok", remaining, current_time + lim.time_window, 0, cleaned)

\* RateLimiter.check_rate_limit() at time current_time
check_rate_limit(reqs, lim, current_time) ==
    LET cleaned == _clean_old_requests(reqs, lim.time_window, current_time)
        remaining == lim.max_requests - Len(cleaned)
    IN IF Len(cleaned) >= lim.max_requests
       THEN LET reset_time == oldest_request(cleaned) + lim.time_window IN
            RateLimitInfo("exceeded", 0, reset_time, reset_time - current_time, cleaned)
       \* len(self.requests) >= self.max_requests * 0.8
       ELSE IF 5 * Len(cleaned) >= 4 * lim.max_requests
       THEN RateLimitInfo("warning", remaining, current_time + lim.time_window, 0, cleaned)
       ELSE RateLimitInfo("ok", remaining, current_time + lim.time_window, 0, cleaned)

\* RateLimiter.wait_if_needed() run to its end by a caller that is alone:
\* the sleep, if any, moves the clock, then the request is recorded
wait_if_needed(reqs, lim, current_time) ==
    LET rate_info == check_rate_limit(reqs, lim, current_time)
        wait_time == IF rate_info.status = "exceeded" /\ rate_info.retry_after # 0
                     THEN IF rate_info.retry_after < max_backoff
                          THEN rate_info.retry_after ELSE max_backoff
                     ELSE 0
    IN [requests |-> Append(rate_info.requests, current_time + wait_time),
        now |-> current_time + wait_time]

(***************************************************************************)
(* handle_httpx_error and get_user_friendly_message (error_handling.py)    *)
(***************************************************************************)
\* the error_type of the PettingZooError handle_httpx_error builds
handle_httpx_error(error) ==
    IF IsTimeoutException(error.cls) THEN "network_timeout"
    ELSE IF IsHTTPStatusError(error.cls)
    THEN IF error.status = 429 THEN "rate_limit" ELSE "api_error"
    ELSE "network_timeout"

\* get_user_friendly_message(error, animal)
get_user_friendly_message(error_type, a) ==
    CASE error_type = "rate_limit" ->
            Text("The {animal} API is busy right now. The animals are taking a break! Please try again in a moment.", JStr(name_chars(a)))
      [] error_type = "network_timeout" ->
            Text("The {animal}s are being shy and taking their time. Please try again!", JStr(name_chars(a)))
      [] error_type = "api_error" ->
            Text("The {animal} API is having a nap. Please try again later!", JStr(name_chars(a)))
      [] error_type = "validation_error" ->
            Text("That doesn't look like a valid {animal} request. Please try again!", JStr(name_chars(a)))
      [] OTHER ->
            Text("The {animal}s are all sleeping right now. Please try again later!", JStr(name_chars(a)))

(***************************************************************************)
(* The duck, dog and cat tools of the legacy server                        *)
(* (server/petting_zootopia.py)                                            *)
(***************************************************************************)
\* the outer except clauses of a legacy tool
legacy_except(r, a) ==
    IF r.kind # "Raised" THEN r
    ELSE IF IsHTTPError(r.exc.cls)
    THEN Returned(get_user_friendly_message(handle_httpx_error(r.exc), a))
    ELSE IF IsException(r.exc.cls)
    THEN Returned(Text("Error fetching {animal}: {str(e)}", str_exc(r.exc)))
    ELSE r

\* the legacy duck tool after its GET completed with outcome o
legacy_duck(o) ==
    LET r == request_json(o) IN
    legacy_except(
        IF r.kind = "Raised" THEN r
        ELSE IF r.data.t # "obj" THEN Raised(Exc("AttributeError", 0, <<>>))
        ELSE Returned(dict_get(r.data, "url",
                 JStr(<<"N","o"," ","d","u","c","k"," ","U","R","L"," ","f","o","u","n","d">>))),
        "duck")

\* the legacy cat tool after its GET completed with outcome o
legacy_cat(o) ==
    LET r == request_json(o) IN
    legacy_except(
        IF r.kind = "Raised" THEN r
        ELSE IF ~truthy(r.data) THEN Returned(Text("No cat images available", JNull))
        ELSE IF r.data.t \in {"num", "bool"} THEN Raised(Exc("TypeError", 0, <<>>))
        ELSE IF r.data.t = "obj" THEN Raised(Exc("KeyError", 0, <<>>))
        ELSE IF r.data.t = "str" THEN Raised(Exc("AttributeError", 0, <<>>))
        ELSE IF r.data.items[1].t # "obj" THEN Raised(Exc("AttributeError", 0, <<>>))
        ELSE Returned(dict_get(r.data.items[1], "url",
                 JStr(<<"N","o"," ","c","a","t"," ","U","R","L"," ","f","o","u","n","d">>))),
        "cat")

\* one stage of the legacy dog tool: the URL it returns, Unusable when the
\* stage falls through to the next one, or the exception it lets through
Unusable == [kind |-> "Unusable"]

\* faulty variant: the stage has no except clause of its own
legacy_dog_stage_uncaught(o, field) ==
    LET r == request_json(o) IN
    IF r.kind = "Raised" THEN r
    ELSE IF r.data.t # "obj" THEN Unusable
    ELSE LET url == dict_get(r.data, field, JStr(<<>>)) IN
         IF truthy(url) /\ url.t = "str" /\ endswith(lower(url.s), IMAGE_EXTENSIONS)
         THEN Returned(url)
         ELSE Unusable

legacy_dog_stage(o, field) ==
    LET r == request_json(o) IN
    IF r.kind = "Raised"
    THEN IF IsException(r.exc.cls) THEN Unusable ELSE r
    ELSE IF r.data.t # "obj" THEN Unusable
    ELSE LET url == dict_get(r.data, field, JStr(<<>>)) IN
         IF truthy(url) /\ url.t = "str" /\ endswith(lower(url.s), IMAGE_EXTENSIONS)
         THEN Returned(url)
         ELSE Unusable

\* the endpoint each legacy tool asks first
legacy_url(a) ==
    CASE a = "duck" -> "https://random-d.uk/api/v2/random"
      [] a = "dog" -> "https://random.dog/woof.json"
      [] a = "cat" -> "https://api.thecatapi.com/v1/images/search"

\* transport outcomes the two tool layers are exercised with
LegacyOutcomes ==
    { Raises("ReadTimeout"), Raises("ConnectError"), Raises("RuntimeError"),
      Raises("CancelledError"),
      Response(200, <<>>, JObj(<< <<"url", JStr(GoodUrl)>> >>)),
      Response(200, <<>>, JObj(<< <<"message", JStr(GoodUrl)>> >>)),
      Response(200, <<>>, JArr(<< JObj(<< <<"url", JStr(GoodUrl)>> >>) >>)),
      Response(200, <<>>, Undecodable),
      Response(429, <<>>, Undecodable),
      Response(503, <<>>, Undecodable) }

\* how many calls of a legacy tool a run makes
MaxCalls(a) == IF a = "cat" THEN MaxCatCalls ELSE MaxOtherCalls

\* time.time() moves on
tick ==
    /\ now < MaxTicks * TickSeconds
    /\ now' = now + TickSeconds
    /\ UNCHANGED <<limiters, legacy_pc, legacy_api, legacy_gets, legacy_reply,
                   legacy_calls, fetchVars, notLegacyVars>>

\* a legacy tool is called: check_api_rate_limit, the refusal when the limit
\* is exceeded, else wait_for_rate_limit and the first GET
legacy_tool_call(a) ==
    /\ legacy_pc = "idle"
    /\ legacy_calls[a] < MaxCalls(a)
    /\ legacy_calls' = [legacy_calls EXCEPT ![a] = @ + 1]
    /\ legacy_api' = a
    /\ LET rate_info == check_rate_limit(limiters[a], api_rate_limiters[a], now) IN
       IF rate_info.status = "exceeded"
       THEN /\ limiters' = [limiters EXCEPT ![a] = rate_info.requests]
            /\ legacy_reply' = Returned(Text(
                   "Error: {Animal} API rate limit exceeded. Please try again later.",
                   JStr(name_chars(a))))
            /\ legacy_pc' = "done"
            /\ UNCHANGED <<now, legacy_gets>>
       ELSE LET waited == wait_if_needed(rate_info.requests, api_rate_limiters[a], now) IN
            /\ limiters' = [limiters EXCEPT ![a] = waited.requests]
            /\ now' = waited.now
            /\ legacy_gets' = <<legacy_url(a)>>
            /\ legacy_pc' = "await"
            /\ UNCHANGED legacy_reply
    /\ UNCHANGED <<fetchVars, notLegacyVars>>

\* the first GET of the legacy tool completes
legacy_tool_resume(o) ==
    /\ legacy_pc = "await"
    /\ LET r == CASE legacy_api = "duck" -> legacy_duck(o)
                  [] legacy_api = "cat" -> legacy_cat(o)
                  [] legacy_api = "dog" -> legacy_dog_stage(o, "url")
       IN IF r = Unusable
          THEN /\ legacy_gets' = Append(legacy_gets, "https://dog.ceo/api/breeds/image/random")
               /\ legacy_pc' = "fallback_await"
               /\ UNCHANGED legacy_reply
          ELSE /\ legacy_reply' = r
               /\ legacy_pc' = "done"
               /\ UNCHANGED legacy_gets
    /\ UNCHANGED <<now, limiters, legacy_api, legacy_calls, fetchVars, notLegacyVars>>

\* the fallback GET of the legacy dog tool completes
legacy_dog_fallback_resume(o) ==
    /\ legacy_pc = "fallback_await"
    /\ LET r == legacy_dog_stage(o, "message") IN
       legacy_reply' = IF r = Unusable THEN Returned(JStr(FALLBACK_IMAGES["dog"])) ELSE r
    /\ legacy_pc' = "done"
    /\ UNCHANGED <<now, limiters, legacy_api, legacy_gets, legacy_calls,
                   fetchVars, notLegacyVars>>

\* the MCP client has the legacy tool's reply; the limiters stay
legacy_tool_done ==
    /\ legacy_pc = "done"
    /\ legacy_pc' = "idle"
    /\ legacy_api' = ""
    /\ legacy_gets' = <<>>
    /\ legacy_reply' = NoReply
    /\ UNCHANGED <<now, limiters, legacy_calls, fetchVars, notLegacyVars>>

\* transport outcomes the tools of petting_zootopia.server are exercised
\* with next to the legacy tools
NewToolOutcomes ==
    { Raises("ReadTimeout"),
      Response(200, <<>>, JObj(<< <<"url", JStr(GoodUrl)>> >>)),
      Response(429, <<>>, Undecodable) }

\* the two versions of the tool layer; one call is served at a time
ToolLayerNext ==
    \/ tick
    \/ \E a \in {"duck", "dog", "cat"} : legacy_tool_call(a) /\ tool = ""
    \/ \E o \in LegacyOutcomes : legacy_tool_resume(o)
    \/ \E o \in LegacyOutcomes : legacy_dog_fallback_resume(o)
    \/ legacy_tool_done
    \/ \E t \in {"duck", "dog", "cat"} : tool_call(t) /\ legacy_pc = "idle"
    \/ \E o \in NewToolOutcomes : fetch_duck_resume(o) /\ UNCHANGED layerVars
    \/ \E o \in NewToolOutcomes : fetch_cat_resume(o) /\ UNCHANGED layerVars
    \/ \E o \in NewToolOutcomes : fetch_dog_primary_resume(o) /\ UNCHANGED layerVars
    \/ \E o \in NewToolOutcomes : fetch_dog_fallback_resume(o) /\ UNCHANGED layerVars
    \/ tool_return
    \/ tool_done

ToolLayerSpec == Init /\ [][ToolLayerNext]_vars

\* the requests the API's limiter holds inside the trailing time_window
InWindow(a) ==
    Cardinality({i \in 1..Len(limiters[a]) :
                    limiters[a][i] > now - api_rate_limiters[a].time_window})

\* a legacy tool call begins / a tool call of petting_zootopia.server begins
LegacyCallBegins == legacy_pc = "idle" /\ legacy_pc' # "idle"
ToolCallBegins == tool = "" /\ tool' # ""

(***************************************************************************)
(* C19: in no version of the tool layer (legacy server/petting_zootopia.py *)
(* or petting_zootopia.server) is a duck/dog/cat tool call blocked or      *)
(* refused because of local rate-limiter state: after any sequence of      *)
(* earlier calls, a tool call still proceeds to its outbound fetch.        *)
(* As stated it fails: the legacy tools return an error, without any GET,  *)
(* when check_api_rate_limit reports the limit exceeded.                   *)
(***************************************************************************)
C19_Original_NoCallIsRefused ==
    /\ legacy_pc # "idle" => Len(legacy_gets) >= 1
    /\ tool # "" => Len(requests) >= 1

\* C19 as amended: a tool call of petting_zootopia.server always proceeds
\* to its outbound fetch, whatever calls came before; a legacy tool call
\* is refused, with the rate-limit error and without any GET, exactly when
\* its API's RateLimiter holds max_requests or more requests inside the
\* trailing time_window, and proceeds to its outbound fetch otherwise.
C19_OnlyLegacyRefusesWhenWindowFull ==
    [][ /\ ToolCallBegins => Len(requests') = 1
        /\ LegacyCallBegins =>
              LET a == legacy_api' IN
              /\ InWindow(a) >= api_rate_limiters[a].max_requests
                    <=> legacy_gets' = <<>>
              /\ legacy_gets' = <<>> =>
                    /\ legacy_pc' = "done"
                    /\ legacy_reply'.value.msg =
                         "Error: {Animal} API rate limit exceeded. Please try again later."
              /\ legacy_gets' # <<>> => legacy_gets' = <<legacy_url(a)>> ]_vars

\* the eleventh cat call inside one minute is refused without a GET
C19_Witness ==
    /\ legacy_pc = "done"
    /\ legacy_api = "cat"
    /\ legacy_calls["cat"] = 11
    /\ Len(limiters["cat"]) = 10
    /\ legacy_gets = <<>>
    /\ legacy_reply.kind = "Returned"
    /\ legacy_reply.value.arg = JStr(name_chars("cat"))

(***************************************************************************)
(* POST /api/animal of the MCP web interface (web_client/app.py)           *)
(***************************************************************************)
\* the request bodies (a JSON object): the values of "query" and "animal",
\* None when the key is absent
ClientQueries ==
    { None, Some(JStr(<<>>)),
      Some(JStr(<<"I"," ","w","a","n","t"," ","a"," ","d","u","c","k","!">>)),
      Some(JStr(<<"S","h","o","w"," ","m","e"," ","a"," ","C","A","T">>)) }
ClientAnimals ==
    { None, Some(JStr(<<>>)), Some(JStr(name_chars("duck"))),
      Some(JStr(<<"D","o","g">>)),
      Some(JStr(<<"e","l","e","p","h","a","n","t">>)), Some(JNum(5)) }
ClientRequests == { [query |-> q, animal |-> a] : q \in ClientQueries, a \in ClientAnimals }

\* what `await mcp_client["process_query"](query)` ends with: the text it
\* returns, or the exception it raises
ProcessQueryResults ==
    { Returned(JNull), Returned(JStr(<<>>)), Returned(JStr(<<" "," ">>)),
      Returned(JStr(<<"N","o"," ","t","o","o","l","s">>)),
      Returned(JStr(<<"q","u","a","c","k">>)),
      Returned(JStr(<<"h","t","t","p",":","/","/">>)),
      Returned(JStr(<<"[","h","t","t","p","s",":","/","/","x",".","j","p","g","]",
                      " ","h","t","t","p",":","/","/","y">>)),
      Raised(Exc("RuntimeError", 0, <<>>)),
      Raised(Exc("CancelledError", 0, <<>>)) }

\* the grave accent (U+0060), written as a name: a string of this language
\* cannot hold it
Backtick == "grave"
\* the characters that end a match of the URL pattern
UrlStops == {" ", "\t", "\n", "<", ">", "\"", "{", "}", "|", "\\", "^", Backtick,
             "[", "]", ",", "'"}

\* the match of url_pattern (https?:// and then one or more characters
\* that are not in UrlStops) that starts at position i of s, or <<>> when
\* there is none
url_match_at(s, i) ==
    LET rest == SubSeq(s, i, Len(s))
        prefix == IF startswith(rest, <<"h","t","t","p","s",":","/","/">>) THEN 8
                  ELSE IF startswith(rest, <<"h","t","t","p",":","/","/">>) THEN 7
                  ELSE 0
        tail == SubSeq(rest, prefix + 1, Len(rest))
        stops == {j \in 1..Len(tail) : tail[j] \in UrlStops}
        run == IF stops = {} THEN Len(tail)
               ELSE (CHOOSE j \in stops : \A k \in stops : j <= k) - 1
    IN IF prefix = 0 \/ run = 0 THEN <<>> ELSE SubSeq(rest, 1, prefix + run)

\* re.findall(url_pattern, result)[0], or <<>> when findall finds nothing
first_url(s) ==
    LET starts == {i \in 1..Len(s) : url_match_at(s, i) # <<>>} IN
    IF starts = {} THEN <<>>
    ELSE url_match_at(s, CHOOSE i \in starts : \A k \in starts : i <= k)

\* HTTPException(status_code, detail), answered by FastAPI, and a returned dict
HTTPException(status_code, detail) ==
    [status_code |-> status_code, content |-> [detail |-> detail]]
DictResponse(content) == [status_code |-> 200, content |-> content]

\* the query the handler forwards: request["query"], or the sentence built
\* from request["animal"]; AttributeError when that is not a string
client_query(request) ==
    IF request.query # None /\ truthy(request.query[1])
    THEN Returned(request.query[1].s)
    ELSE IF request.animal = None
    THEN Returned(<<"I"," ","w","a","n","t"," ","a"," ">> \o <<"!">>)
    ELSE IF request.animal[1].t # "str"
    THEN Raised(Exc("AttributeError", 0, <<>>))
    ELSE Returned(<<"I"," ","w","a","n","t"," ","a"," ">>
                  \o lower(request.animal[1].s) \o <<"!">>)

\* the handler from the return of process_query to its answer
client_answer(query, r) ==
    IF r.kind = "Raised"
    THEN IF IsException(r.exc.cls)
         THEN Returned(HTTPException(500, Text("Internal server error: ", str_exc(r.exc))))
         ELSE r
    \* `not result`
    ELSE IF ~truthy(r.value)
    THEN Returned(HTTPException(500, Text("No result from MCP client", JNull)))
    \* `not result.strip()`
    ELSE IF isblank(r.value.s)
    THEN Returned(HTTPException(500, Text("No result from MCP client", JNull)))
    ELSE IF \/ contains(lower(r.value.s), <<"n","o"," ","t","o","o","l","s">>)
            \/ contains(lower(r.value.s),
                 <<"n","o"," ","a","v","a","i","l","a","b","l","e"," ","t","o","o","l","s">>)
            \/ contains(lower(r.value.s), <<"i"," ","d","o","n","'","t"," ","h","a","v","e">>)
    THEN Returned(DictResponse(
            [success |-> FALSE, noTools |-> TRUE,
             message |-> "Sorry, I don't have tools for that request! Try asking for a duck, dog, or cat.",
             query |-> query]))
    ELSE IF first_url(r.value.s) = <<>>
    THEN Returned(DictResponse([success |-> FALSE,
                                error |-> "No image URL found in response",
                                query |-> query]))
    ELSE Returned(DictResponse(
            [success |-> TRUE, imageUrl |-> first_url(r.value.s),
             animal |-> IF contains(lower(query), name_chars("duck")) THEN "duck"
                        ELSE IF contains(lower(query), name_chars("dog")) THEN "dog"
                        ELSE IF contains(lower(query), name_chars("cat")) THEN "cat"
                        ELSE "animal",
             message |-> query]))

\* startup_event(): the MCP client is created and connected, before a
\* request is served
startup_event ==
    /\ wc_pc = "idle"
    /\ mcp_client = "None"
    /\ mcp_client' = "client"
    /\ UNCHANGED <<wc_pc, wc_request, wc_forwarded, wc_response, fetchVars, notClientVars>>

\* get_animal(request), up to its answer or to `await process_query(query)`
client_get_animal(request) ==
    /\ wc_pc = "idle"
    /\ wc_request' = request
    /\ IF mcp_client = "None"
       THEN /\ wc_response' = Returned(HTTPException(500, Text("MCP client not initialized", JNull)))
            /\ wc_pc' = "done"
            /\ UNCHANGED wc_forwarded
       ELSE LET query == client_query(request) IN
            IF query.kind = "Raised"
            THEN /\ wc_response' = client_answer(<<>>, query)
                 /\ wc_pc' = "done"
                 /\ UNCHANGED wc_forwarded
            ELSE /\ wc_forwarded' = Append(wc_forwarded, query.value)
                 /\ wc_pc' = "awaiting"
                 /\ UNCHANGED wc_response
    /\ UNCHANGED <<mcp_client, fetchVars, notClientVars>>

\* process_query ends and the handler answers
client_get_animal_resume(r) ==
    /\ wc_pc = "awaiting"
    /\ wc_response' = client_answer(wc_forwarded[Len(wc_forwarded)], r)
    /\ wc_pc' = "done"
    /\ UNCHANGED <<wc_request, wc_forwarded, mcp_client, fetchVars, notClientVars>>

\* the response has been sent
client_get_animal_done ==
    /\ wc_pc = "done"
    /\ wc_pc' = "idle"
    /\ wc_request' = [query |-> None, animal |-> None]
    /\ wc_forwarded' = <<>>
    /\ wc_response' = NoReply
    /\ UNCHANGED <<mcp_client, fetchVars, notClientVars>>

WebClientNext ==
    \/ startup_event
    \/ \E request \in ClientRequests : client_get_animal(request)
    \/ \E r \in ProcessQueryResults : client_get_animal_resume(r)
    \/ client_get_animal_done

WebClientSpec == Init /\ [][WebClientNext]_vars

\* the started application is handling a request whose `animal` is a
\* string that is not duck, dog or cat in any case
InvalidAnimalRequested ==
    /\ mcp_client = "client"
    /\ wc_pc # "idle"
    /\ wc_request.animal # None
    /\ wc_request.animal[1].t = "str"
    /\ lower(wc_request.animal[1].s) \notin
           {name_chars("duck"), name_chars("dog"), name_chars("cat")}

(***************************************************************************)
(* C20: in web_client/app.py, POST /api/animal with an `animal` value      *)
(* outside {duck, dog, cat}, the empty string included, is answered with   *)
(* HTTP 400 'Invalid animal type', and no query is forwarded to the MCP    *)
(* client for it.                                                          *)
(* It fails: the handler never looks at the value; it builds the sentence  *)
(* "I want a <animal>!" from it and forwards that to process_query.        *)
(***************************************************************************)
C20_InvalidAnimalIsRejected ==
    InvalidAnimalRequested =>
        /\ wc_forwarded = <<>>
        /\ wc_pc = "done" =>
              /\ wc_response.kind = "Returned"
              /\ wc_response.value.status_code = 400

(***************************************************************************)
(* json.loads, on the texts a language model may answer with               *)
(***************************************************************************)
JsonWhitespace == {" ", "\t", "\n", "\r"}

\* str.strip()
strip(s) ==
    LET keep == {i \in 1..Len(s) : s[i] \notin JsonWhitespace} IN
    IF keep = {} THEN <<>>
    ELSE SubSeq(s, CHOOSE i \in keep : \A k \in keep : i <= k,
                   CHOOSE j \in keep : \A k \in keep : k <= j)

\* the first position from i on that holds no whitespace, Len(s) + 1 if none
skip_ws(s, i) ==
    LET js == {j \in i..Len(s) : s[j] \notin JsonWhitespace} IN
    IF js = {} THEN Len(s) + 1 ELSE CHOOSE j \in js : \A k \in js : j <= k

\* the outcome of decoding one value: the value and the position after it
Fail == [ok |-> FALSE, v |-> JNull, next |-> 0]
Parsed(v, next) == [ok |-> TRUE, v |-> v, next |-> next]

\* the text lit stands at position i of s
literal_at(s, i, lit) ==
    /\ i + Len(lit) - 1 <= Len(s)
    /\ SubSeq(s, i, i + Len(lit) - 1) = lit

\* a string literal that opens at position i (the texts hold no escapes)
json_string(s, i) ==
    LET qs == {j \in (i + 1)..Len(s) : s[j] = "\""} IN
    IF qs = {} THEN Fail
    ELSE LET j == CHOOSE j \in qs : \A k \in qs : j <= k IN
         Parsed(JStr(SubSeq(s, i + 1, j - 1)), j + 1)

\* a numeral that opens at position i (the texts hold unsigned integers)
json_number(s, i) ==
    LET ends == {j \in i..Len(s) : ~is_digit(s[j])}
        e == IF ends = {} THEN Len(s) + 1 ELSE CHOOSE j \in ends : \A k \in ends : j <= k
    IN IF s[i] = "0" THEN Parsed(JNum(0), i + 1)
       ELSE Parsed(JNum(digits_value(SubSeq(s, i, e - 1))), e)

\* dict[key] = value while an object is decoded: a repeated key keeps its
\* last value
dict_put(kvs, key, value) ==
    SelectSeq(kvs, LAMBDA kv : kv[1] # key) \o << <<key, value>> >>

RECURSIVE json_value(_, _), json_items(_, _, _), json_members(_, _, _)
\* the JSON value that opens at position i of s
json_value(s, i) ==
    IF i > Len(s) THEN Fail
    ELSE IF literal_at(s, i, <<"n","u","l","l">>) THEN Parsed(JNull, i + 4)
    ELSE IF literal_at(s, i, <<"t","r","u","e">>) THEN Parsed(JBool(TRUE), i + 4)
    ELSE IF literal_at(s, i, <<"f","a","l","s","e">>) THEN Parsed(JBool(FALSE), i + 5)
    ELSE IF s[i] = "\"" THEN json_string(s, i)
    ELSE IF is_digit(s[i]) THEN json_number(s, i)
    ELSE IF s[i] = "["
    THEN LET j == skip_ws(s, i + 1) IN
         IF j <= Len(s) /\ s[j] = "]" THEN Parsed(JArr(<<>>), j + 1)
         ELSE json_items(s, j, <<>>)
    ELSE IF s[i] = "{"
    THEN LET j == skip_ws(s, i + 1) IN
         IF j <= Len(s) /\ s[j] = "}" THEN Parsed(JObj(<<>>), j + 1)
         ELSE json_members(s, j, <<>>)
    ELSE Fail

\* the rest of an array whose next element opens at position i
json_items(s, i, acc) ==
    LET v == json_value(s, i) IN
    IF ~v.ok THEN Fail
    ELSE LET j == skip_ws(s, v.next) IN
         IF j > Len(s) THEN Fail
         ELSE IF s[j] = "," THEN json_items(s, skip_ws(s, j + 1), Append(acc, v.v))
         ELSE IF s[j] = "]" THEN Parsed(JArr(Append(acc, v.v)), j + 1)
         ELSE Fail

\* the rest of an object whose next key opens at position i
json_members(s, i, acc) ==
    IF i > Len(s) \/ s[i] # "\"" THEN Fail
    ELSE LET key == json_string(s, i) IN
         IF ~key.ok THEN Fail
         ELSE LET c == skip_ws(s, key.next) IN
              IF c > Len(s) \/ s[c] # ":" THEN Fail
              ELSE LET v == json_value(s, skip_ws(s, c + 1)) IN
                   IF ~v.ok THEN Fail
                   ELSE LET j == skip_ws(s, v.next)
                            kvs == dict_put(acc, key.v.s, v.v)
                        IN IF j > Len(s) THEN Fail
                           ELSE IF s[j] = "," THEN json_members(s, skip_ws(s, j + 1), kvs)
                           ELSE IF s[j] = "}" THEN Parsed(JObj(kvs), j + 1)
                           ELSE Fail

\* json.loads(s): the value, or JSONDecodeError
json_loads(s) ==
    LET v == json_value(s, skip_ws(s, 1)) IN
    IF v.ok /\ skip_ws(s, v.next) = Len(s) + 1 THEN Returned(v.v)
    ELSE Raised(Exc("JSONDecodeError", 0, <<>>))

(***************************************************************************)
(* create_ollama_processor (mcp_client/ai_mcp_client.py)                   *)
(***************************************************************************)
\* str(e) of the exceptions the processor meets
OllamaMessages ==
    { <<>>, <<"C","a","n","n","o","t"," ","c","o","n","n","e","c","t"," ","t","o"," ","O","l","l","a","m","a">>, <<"R","e","q","u","e","s","t"," ","t","i","m","e","o","u","t">>,
      <<"{","\"","t","o","o","l","\"",":"," ","\"","d","u","c","k","\"",","," ","\"","p","a","r","a","m","e","t","e","r","s","\"",":"," ","{","}","}">> }
exc_message(cls) ==
    CASE cls = "HTTPError" -> <<"S","e","r","v","e","r"," ","E","r","r","o","r">>
      [] cls = "JSONDecodeError" -> <<"E","x","p","e","c","t","i","n","g"," ","v","a","l","u","e">>
      [] cls = "KeyError" -> <<"'","r","e","s","p","o","n","s","e","'">>
      [] cls = "TypeError" -> <<"o","b","j","e","c","t"," ","i","s"," ","n","o","t"," ","s","u","b","s","c","r","i","p","t","a","b","l","e">>
      [] cls = "AttributeError" -> <<"o","b","j","e","c","t"," ","h","a","s"," ","n","o"," ","a","t","t","r","i","b","u","t","e">>
      [] cls = "RuntimeError" -> <<"t","o","o","l"," ","f","a","i","l","e","d">>

\* the texts the model may put in the "response" field
OllamaTexts ==
    { <<"{","\"","t","o","o","l","\"",":"," ","\"","d","u","c","k","\"",","," ","\"","p","a","r","a","m","e","t","e","r","s","\"",":"," ","{","}","}">>,
      <<" ","{","\"","t","o","o","l","\"",":","\"","c","a","t","\"","}","\n">>,
      <<"{","\"","t","o","o","l","\"",":"," ","n","u","l","l",","," ","\"","p","a","r","a","m","e","t","e","r","s","\"",":"," ","{","}","}">>,
      <<"{","\"","t","o","o","l","\"",":"," ","\"","n","u","l","l","\"",","," ","\"","p","a","r","a","m","e","t","e","r","s","\"",":"," ","{","}","}">>,
      <<"{","\"","t","o","o","l","\"",":"," ","5",","," ","\"","p","a","r","a","m","e","t","e","r","s","\"",":"," ","[","]","}">>,
      <<"{","\"","t","o","o","l","\"",":"," ","\"","d","o","g","\"",","," ","\"","t","o","o","l","\"",":"," ","\"","\"","}">>,
      <<"{","\"","p","a","r","a","m","e","t","e","r","s","\"",":"," ","{","}","}">>,
      <<"[","\"","d","u","c","k","\"","]">>, <<"\"","d","u","c","k","\"">>, <<"n","u","l","l">>, <<"{","\"","t","o","o","l","\"",":"," ","\"","d","u","c","k","\"">>, <<"{","\"","t","o","o","l","\"",":"," ","\"","d","u","c","k","\"","}"," ","x">>,
      <<"E","r","r","o","r"," ","c","a","l","l","i","n","g"," ","O","l","l","a","m","a",":"," ","x">>, <<"I"," ","w","o","u","l","d"," ","c","a","l","l"," ","t","h","e"," ","d","u","c","k"," ","t","o","o","l">>, <<>> }

\* the bodies the Ollama endpoint may answer with
OllamaBodies ==
    { Undecodable, JNull, JArr(<<>>), JObj(<<>>), JObj(<< <<"response", JNum(5)>> >>) }
    \cup { JObj(<< <<"response", JStr(text)>> >>) : text \in OllamaTexts }

\* what requests.post(ollama_url, json=..., timeout=30) ends with
OllamaOutcomes ==
    { [o |-> "raises", cls |-> cls, msg |-> msg, status |-> 0, body |-> JNull] :
        cls \in {"ConnectionError", "Timeout", "TimeoutError"}, msg \in OllamaMessages }
    \cup { [o |-> "response", cls |-> "", msg |-> <<>>, status |-> st, body |-> b] :
             st \in {200, 404, 500}, b \in OllamaBodies }

\* the call took call_ollama's except branch
OllamaFailed(o) ==
    \/ o.o = "raises"
    \/ o.status >= 400
    \/ o.body.t # "obj"
    \/ ~\E i \in 1..Len(o.body.fields) : o.body.fields[i][1] = "response"

\* faulty variant: a failure is reported as a JSON document naming no tool
call_ollama_json_error(o) ==
    IF OllamaFailed(o)
    THEN JStr(<<"{","\"","t","o","o","l","\"",":"," ","n","u","l","l",","," ","\"","e","r","r","o","r","\"",":"," ","\"">>
              \o (IF o.o = "raises" THEN o.msg ELSE exc_message("HTTPError")) \o <<"\"","}">>)
    ELSE dict_get(o.body, "response", JNull)

\* call_ollama(prompt), from the completion of requests.post
call_ollama(o) ==
    IF o.o = "raises"
    THEN JStr(<<"E","r","r","o","r"," ","c","a","l","l","i","n","g"," ","O","l","l","a","m","a",":"," ">> \o o.msg)
    \* response.raise_for_status()
    ELSE IF o.status >= 400
    THEN JStr(<<"E","r","r","o","r"," ","c","a","l","l","i","n","g"," ","O","l","l","a","m","a",":"," ">> \o exc_message("HTTPError"))
    \* response.json()["response"]
    ELSE IF o.body.t = "undecodable"
    THEN JStr(<<"E","r","r","o","r"," ","c","a","l","l","i","n","g"," ","O","l","l","a","m","a",":"," ">> \o exc_message("JSONDecodeError"))
    ELSE IF o.body.t # "obj"
    THEN JStr(<<"E","r","r","o","r"," ","c","a","l","l","i","n","g"," ","O","l","l","a","m","a",":"," ">> \o exc_message("TypeError"))
    ELSE IF ~\E i \in 1..Len(o.body.fields) : o.body.fields[i][1] = "response"
    THEN JStr(<<"E","r","r","o","r"," ","c","a","l","l","i","n","g"," ","O","l","l","a","m","a",":"," ">> \o exc_message("KeyError"))
    ELSE dict_get(o.body, "response", JNull)

\* the tools create_mcp_client lists: name, description, input_schema
ToolLists ==
    { <<>>,
      << [name |-> "duck", description |-> "Get a duck", input_schema |-> JNull] >>,
      << [name |-> "duck", description |-> "Get a duck", input_schema |-> JObj(<<>>)],
         [name |-> "greet", description |-> "Greet",
          input_schema |-> JObj(<< <<"properties", JObj(<< <<"name", JObj(<<>>)>> >>)>> >>)] >> }

\* tools_info, as process_query builds it from available_tools
tools_info(available_tools) ==
    [i \in 1..Len(available_tools) |->
        [name |-> available_tools[i].name,
         description |-> available_tools[i].description,
         parameters |-> IF truthy(available_tools[i].input_schema)
                        THEN dict_get(available_tools[i].input_schema, "properties", JObj(<<>>))
                        ELSE JObj(<<>>)]]

OllamaQueries == { <<"t","e","s","t"," ","q","u","e","r","y">>, <<"S","h","o","w"," ","m","e"," ","a"," ","d","u","c","k">> }

\* str() of the values process_query interpolates into its answer
py_str(v) ==
    CASE v.t = "str" -> v.s
      [] v.t = "num" -> <<Digits[v.n + 1]>>
      [] v.t = "obj" /\ v.fields = <<>> -> <<"{","}">>
      [] v.t = "arr" /\ v.items = <<>> -> <<"[","]">>

\* process_query from `ollama_response = call_ollama(prompt)` to its return
\* or to `await session.call_tool(tool_name, tool_params)`
ollama_decide(ollama_response) ==
    \* ollama_response.strip()
    IF ollama_response.t # "str"
    THEN [call |-> FALSE, tool_name |-> JNull, tool_params |-> JNull,
          answer |-> <<"E","r","r","o","r"," ","p","r","o","c","e","s","s","i","n","g"," ","q","u","e","r","y",":"," ">> \o exc_message("AttributeError")]
    ELSE LET decoded == json_loads(strip(ollama_response.s)) IN
    IF decoded.kind = "Raised"
    THEN [call |-> FALSE, tool_name |-> JNull, tool_params |-> JNull,
          answer |-> <<"C","o","u","l","d"," ","n","o","t"," ","p","a","r","s","e"," ","O","l","l","a","m","a"," ","r","e","s","p","o","n","s","e"," ","a","s"," ","J","S","O","N",":"," ">> \o ollama_response.s]
    \* decoded.get("tool")
    ELSE IF decoded.value.t # "obj"
    THEN [call |-> FALSE, tool_name |-> JNull, tool_params |-> JNull,
          answer |-> <<"E","r","r","o","r"," ","p","r","o","c","e","s","s","i","n","g"," ","q","u","e","r","y",":"," ">> \o exc_message("AttributeError")]
    ELSE LET t == dict_get(decoded.value, <<"t","o","o","l">>, JNull) IN
    IF truthy(t) /\ t # JStr(<<"n","u","l","l">>)
    THEN [call |-> TRUE, tool_name |-> t,
          tool_params |-> dict_get(decoded.value, <<"p","a","r","a","m","e","t","e","r","s">>, JObj(<<>>)),
          answer |-> <<>>]
    ELSE [call |-> FALSE, tool_name |-> JNull, tool_params |-> JNull,
          answer |-> <<"S","o","r","r","y",","," ","I"," ","d","o","n","'","t"," ","h","a","v","e"," ","t","o","o","l","s"," ","a","v","a","i","l","a","b","l","e"," ","f","o","r"," ","t","h","a","t"," ","r","e","q","u","e","s","t","."," ","I"," ","c","a","n"," ","o","n","l","y"," ","h","e","l","p"," ","w","i","t","h"," ","d","u","c","k","s",","," ","d","o","g","s",","," ","c","a","t","s",","," ","g","r","e","e","t","i","n","g","s",","," ","a","n","d"," ","h","e","a","l","t","h"," ","c","h","e","c","k","s",".">>]

\* what `await session.call_tool(...)` ends with: result.content, or an exception
CallToolResults ==
    { Returned(<<"h","t","t","p","s",":","/","/","x",".","j","p","g">>), Raised(Exc("RuntimeError", 0, <<>>)),
      Raised(Exc("CancelledError", 0, <<>>)) }

\* process_query(query, available_tools, session) up to its return or to
\* `await session.call_tool(tool_name, tool_params)`
ollama_process_query(query, available_tools, o) ==
    /\ ol_pc = "idle"
    /\ ol_posts' = << [tools |-> tools_info(available_tools), query |-> query] >>
    /\ ol_outcome' = o
    /\ LET d == ollama_decide(call_ollama(o)) IN
       IF d.call
       THEN /\ ol_tool_calls' = << [name |-> d.tool_name, arguments |-> d.tool_params] >>
            /\ ol_pc' = "calling_tool"
            /\ UNCHANGED ol_result
       ELSE /\ ol_result' = Returned(d.answer)
            /\ ol_pc' = "done"
            /\ UNCHANGED ol_tool_calls
    /\ UNCHANGED notOllamaVars

\* session.call_tool ends and process_query returns
ollama_call_tool_resume(r) ==
    /\ ol_pc = "calling_tool"
    /\ ol_result' =
         IF r.kind = "Returned"
         THEN Returned(<<"T","o","o","l"," ","'">> \o py_str(ol_tool_calls[1].name)
                       \o <<"'"," ","c","a","l","l","e","d"," ","w","i","t","h"," ","p","a","r","a","m","e","t","e","r","s"," ">> \o py_str(ol_tool_calls[1].arguments)
                       \o <<".","\n","R","e","s","u","l","t",":"," ">> \o r.value)
         ELSE IF IsException(r.exc.cls)
         THEN Returned(<<"E","r","r","o","r"," ","p","r","o","c","e","s","s","i","n","g"," ","q","u","e","r","y",":"," ">> \o exc_message(r.exc.cls))
         ELSE r
    /\ ol_pc' = "done"
    /\ UNCHANGED <<ol_posts, ol_outcome, ol_tool_calls, notOllamaVars>>

\* the caller has the answer
ollama_returns ==
    /\ ol_pc = "done"
    /\ ol_pc' = "idle"
    /\ ol_posts' = <<>>
    /\ ol_outcome' = NoOutcome
    /\ ol_tool_calls' = <<>>
    /\ ol_result' = NoResult
    /\ UNCHANGED notOllamaVars

OllamaNext ==
    \/ \E query \in OllamaQueries, available_tools \in ToolLists, o \in OllamaOutcomes :
          ollama_process_query(query, available_tools, o)
    \/ \E r \in CallToolResults : ollama_call_tool_resume(r)
    \/ ollama_returns

OllamaSpec == Init /\ [][OllamaNext]_vars

(***************************************************************************)
(* C21: when the call to Ollama fails (requests.post raises, the status is *)
(* an error, or the body has no readable "response"), process_query does   *)
(* not raise, calls no tool on the session and returns a string that       *)
(* contains "Error calling Ollama".                                        *)
(***************************************************************************)
C21_OllamaFailureIsReported ==
    (ol_pc # "idle" /\ OllamaFailed(ol_outcome)) =>
        /\ ol_tool_calls = <<>>
        /\ ol_pc = "done"
        /\ ol_result.kind = "Returned"
        /\ contains(ol_result.value, <<"E","r","r","o","r"," ","c","a","l","l","i","n","g"," ","O","l","l","a","m","a">>)

\* the connection to Ollama is refused with a message that is itself a tool
\* request: the answer quotes it and no tool is called
C21_Witness ==
    /\ ol_pc = "done"
    /\ ol_outcome.o = "raises"
    /\ ol_outcome.cls = "ConnectionError"
    /\ ol_outcome.msg = <<"{","\"","t","o","o","l","\"",":"," ","\"","d","u","c","k","\"",","," ","\"","p","a","r","a","m","e","t","e","r","s","\"",":"," ","{","}","}">>
    /\ ol_tool_calls = <<>>
    /\ ol_result = Returned(<<"C","o","u","l","d"," ","n","o","t"," ","p","a","r","s","e"," ","O","l","l","a","m","a"," ","r","e","s","p","o","n","s","e"," ","a","s"," ","J","S","O","N",":"," ","E","r","r","o","r"," ","c","a","l","l","i","n","g"," ","O","l","l","a","m","a",":"," ","{","\"","t","o","o","l","\"",":"," ","\"","d","u","c","k","\"",","," ","\"","p","a","r","a","m","e","t","e","r","s","\"",":"," ","{","}","}">>)

(***************************************************************************)
(* Concurrent fetch calls on one client (http.py)                          *)
(***************************************************************************)
\* the tasks that call fetch_animal at the same time
Tasks == {1, 2}

\* the frame of one fetch call: its position, its argument and its locals
NoCall ==
    [pc |-> "idle", animal |-> "", outcomes |-> <<>>, primary_result |-> NoResult,
     result |-> NoResult]

\* a completed call, as an observer keeps it: the function called, the
\* transport outcomes it was given and what it returned
NoCallSeen == [animal |-> "", outcomes |-> <<>>, result |-> NoResult]
CallSeen(c) == [animal |-> c.animal, outcomes |-> c.outcomes, result |-> c.result]

\* what the concurrent GETs end with
ConcurrentOutcomes ==
    { Raises("ReadTimeout"), Raises("CancelledError"),
      Response(200, <<>>, JObj(<< <<"url", JStr(GoodUrl)>> >>)),
      Response(200, <<>>, JObj(<< <<"message", JStr(GoodUrl)>> >>)),
      Response(200, <<>>, JArr(<< JObj(<< <<"url", JStr(GoodUrl)>> >>) >>)),
      Response(429, << <<"3","0">> >>, Undecodable) }

\* faulty variant: primary_result is kept in one place for all calls
frame_shared(cs, i) == cs[CHOOSE j \in Tasks : \A k \in Tasks : j <= k]

\* the frame a running call reads its locals from: its own
frame(cs, i) == cs[i]

\* task i calls fetch_animal(a, client, config) with the shared client
concurrent_fetch_animal(i, a) ==
    /\ calls[i].pc = "idle"
    /\ calls' = [calls EXCEPT ![i] =
         IF a \notin DOMAIN FETCHERS
         THEN [NoCall EXCEPT !.animal = a, !.pc = "done",
                 !.result = Err(ParseError(a, Text("Unknown animal type: ", JStr(name_chars(a)))))]
         ELSE [NoCall EXCEPT !.animal = a, !.pc = FETCHERS[a].pc]]
    /\ UNCHANGED <<seen, fetchVars, notConcurrentVars>>

\* the GET task i awaits completes with outcome o and the call runs on to
\* its next await or to its return
concurrent_resume(i, o) ==
    /\ calls[i].pc \in {"duck_await", "cat_await", "dog_primary_await", "dog_fallback_await"}
    /\ LET c == [calls[i] EXCEPT !.outcomes = Append(@, o)] IN
       calls' = [calls EXCEPT ![i] =
         CASE c.pc = "duck_await" ->
                [c EXCEPT !.pc = "done", !.result = fetch_duck_result(o)]
           [] c.pc = "cat_await" ->
                [c EXCEPT !.pc = "done", !.result = fetch_cat_result(o)]
           [] c.pc = "dog_primary_await" ->
                LET r == _fetch_dog_primary(o) IN
                IF r.kind \in {"Ok", "Raised"}
                THEN [c EXCEPT !.pc = "done", !.primary_result = r, !.result = r]
                ELSE [c EXCEPT !.pc = "dog_fallback_await", !.primary_result = r]
           [] c.pc = "dog_fallback_await" ->
                [c EXCEPT !.pc = "done",
                          !.result = fetch_dog_return(frame(calls, i).primary_result,
                                                      _fetch_dog_fallback(o))]]
    /\ UNCHANGED <<seen, fetchVars, notConcurrentVars>>

\* an observer keeps a completed call to compare later calls with
concurrent_observe(i) ==
    /\ calls[i].pc = "done"
    /\ seen' = CallSeen(calls[i])
    /\ UNCHANGED <<calls, fetchVars, notConcurrentVars>>

\* task i has its result and is free to call again
concurrent_returns(i) ==
    /\ calls[i].pc = "done"
    /\ calls' = [calls EXCEPT ![i] = NoCall]
    /\ UNCHANGED <<seen, fetchVars, notConcurrentVars>>

ConcurrentNext ==
    \/ \E i \in Tasks, a \in AnimalNames : concurrent_fetch_animal(i, a)
    \/ \E i \in Tasks, o \in ConcurrentOutcomes : concurrent_resume(i, o)
    \/ \E i \in Tasks : concurrent_observe(i)
    \/ \E i \in Tasks : concurrent_returns(i)

ConcurrentSpec == Init /\ [][ConcurrentNext]_vars

\* the completed calls in sight: those of the tasks and the one kept
CompletedCalls ==
    { CallSeen(calls[i]) : i \in {j \in Tasks : calls[j].pc = "done"} }
    \cup (IF seen = NoCallSeen THEN {} ELSE {seen})

C23_CancellationPropagates ==
    \A i \in 1..Len(outcomes) :
        Cancelled(outcomes[i]) =>
            /\ i = Len(outcomes)
            /\ pc = "done"
            /\ result = Raised(Exc("CancelledError", 0, <<>>))
            /\ inflight = {}
            /\ (animal = "dog" /\ i = 1) => requests = <<"dog_api_url">>

\* fetch_dog was cancelled during its primary GET
C23_Witness ==
    /\ pc = "done" /\ animal = "dog"
    /\ outcomes = <<Raises("CancelledError")>>
    /\ requests = <<"dog_api_url">>
    /\ result.kind = "Raised"

(***************************************************************************)
(* The legacy health check (health_check.py)                               *)
(***************************************************************************)
\* HealthChecker.api_endpoints, in the order check_all_apis walks it
api_endpoints == <<"duck", "dog", "cat">>

\* what the GET of a legacy probe ends with
LegacyProbeOutcomes ==
    { Response(st, <<>>, JNull) : st \in {200, 429, 503} } \cup
    { Raises(cls) : cls \in {"ReadTimeout", "ConnectError", "RuntimeError",
                             "CancelledError"} }

\* HealthCheckResult(status, message, details); details and the timestamp
\* are left out
HealthCheckResult(status, message) == [status |-> status, message |-> message]

\* HealthChecker.check_api_health(api_name), from the completion of its GET
legacy_check_api_health(api_name, o) ==
    IF o.o = "response"
    THEN IF o.status = 200
         THEN Returned(HealthCheckResult("healthy", Text("API is healthy", JStr(name_chars(api_name)))))
         ELSE IF o.status = 429
         THEN Returned(HealthCheckResult("degraded", Text("API is rate limited", JStr(name_chars(api_name)))))
         ELSE Returned(HealthCheckResult("degraded", Text("API returned status ", JNum(o.status))))
    ELSE IF IsTimeoutException(o.cls)
    THEN Returned(HealthCheckResult("unhealthy", Text("API timeout", JStr(name_chars(api_name)))))
    ELSE IF IsConnectError(o.cls)
    THEN Returned(HealthCheckResult("unhealthy", Text("API connection failed", JStr(name_chars(api_name)))))
    ELSE IF IsException(o.cls)
    THEN Returned(HealthCheckResult("unhealthy", str_exc(Exc(o.cls, 0, <<>>))))
    ELSE Raised(Exc(o.cls, 0, <<>>))

\* HealthChecker.get_overall_status(results)
get_overall_status(results) ==
    IF Len(results) = 0 THEN "unhealthy"
    ELSE IF \A i \in 1..Len(results) : results[i].status = "healthy" THEN "healthy"
    ELSE IF \E i \in 1..Len(results) : results[i].status = "unhealthy" THEN "unhealthy"
    ELSE "degraded"

\* the number of results with the given status
count_status(results, status) ==
    Cardinality({i \in 1..Len(results) : results[i].status = status})

\* the dict get_health_status returns
health_status_dict(results) ==
    [status |-> get_overall_status(results),
     apis |-> results,
     summary |-> [total_apis |-> Len(results),
                  healthy |-> count_status(results, "healthy"),
                  degraded |-> count_status(results, "degraded"),
                  unhealthy |-> count_status(results, "unhealthy")]]

\* get_health_status() is called: check_all_apis starts with the first API
get_health_status_call ==
    /\ lh_pc = "idle"
    /\ lh_pc' = "probing"
    /\ UNCHANGED <<lh_outcomes, lh_results, lh_report, notLegacyHealthVars>>

\* the GET of the API in turn completes: check_all_apis goes on to the next
\* API, or get_health_status returns
legacy_check_api_health_resume(o) ==
    /\ lh_pc = "probing"
    /\ lh_outcomes' = Append(lh_outcomes, o)
    /\ LET r == legacy_check_api_health(api_endpoints[Len(lh_outcomes) + 1], o) IN
       IF r.kind = "Raised"
       THEN /\ lh_report' = r
            /\ lh_pc' = "done"
            /\ UNCHANGED lh_results
       ELSE /\ lh_results' = Append(lh_results, r.value)
            /\ IF Len(lh_results') = Len(api_endpoints)
               THEN /\ lh_report' = Returned(health_status_dict(lh_results'))
                    /\ lh_pc' = "done"
               ELSE UNCHANGED <<lh_report, lh_pc>>
    /\ UNCHANGED notLegacyHealthVars

\* the health_check tool has the report
get_health_status_returns ==
    /\ lh_pc = "done"
    /\ lh_pc' = "idle"
    /\ lh_outcomes' = <<>>
    /\ lh_results' = <<>>
    /\ lh_report' = NoResult
    /\ UNCHANGED notLegacyHealthVars

LegacyHealthNext ==
    \/ get_health_status_call
    \/ \E o \in LegacyProbeOutcomes : legacy_check_api_health_resume(o)
    \/ get_health_status_returns

LegacyHealthSpec == Init /\ [][LegacyHealthNext]_vars

\* the APIs whose GET was answered with HTTP 200, and those whose GET was
\* answered at all
LegacyHealthy == {i \in 1..Len(lh_outcomes) : lh_outcomes[i] = Response(200, <<>>, JNull)}
LegacyReachable == {i \in 1..Len(lh_outcomes) : lh_outcomes[i].o = "response"}

(***************************************************************************)
(* C24: get_health_status reports healthy when all three APIs are healthy, *)
(* unhealthy only when none of them is reachable, and degraded when some   *)
(* but not all are.                                                        *)
(* It fails: get_overall_status answers unhealthy as soon as one API is    *)
(* unhealthy, and degraded when none is healthy but all were answered.     *)
(***************************************************************************)
C24_LegacyOverallStatus ==
    (lh_pc = "done" /\ lh_report.kind = "Returned") =>
        /\ Cardinality(LegacyHealthy) = 3 => lh_report.value.status = "healthy"
        /\ lh_report.value.status = "unhealthy" => LegacyReachable = {}
        /\ (LegacyReachable # {} /\ Cardinality(LegacyHealthy) < 3)
              => lh_report.value.status = "degraded"

(***************************************************************************)
(* create_client: connect and query (client.py)                            *)
(***************************************************************************)
MaxConnects == 3    \* connect calls on one client in one run

\* ClientError(message, details)
ClientError(message, details) == [message |-> message, details |-> details]
\* ConnectionInfo(tools, backend)
ConnectionInfo(tools, backend) == [tools |-> tools, backend |-> backend]

\* the paths connect is called with
ServerPaths ==
    { <<"s",".","p","y">>, <<"s",".","j","s">>, <<"s",".","t","x","t">>,
      <<".","P","Y">>, <<>> }

\* what an awaited step of connect or query ends with
StepOutcomes == {"ok", "Exception", "CancelledError"}

\* the awaits of connect and of query, in order, and the step after each
connect_steps == <<"connect_stdio", "connect_session", "connect_initialize",
                   "connect_list_tools">>
query_steps == <<"query_list_tools", "query_processor">>
step_after(steps, step) ==
    LET i == CHOOSE k \in 1..Len(steps) : steps[k] = step IN
    IF i = Len(steps) THEN "return" ELSE steps[i + 1]

\* faulty variant: session is bound only once list_tools has answered
session_after_never(step, s) == s

\* the closure's session once the awaited step has completed: line 271
\* binds it when ClientSession has been entered
session_after(step, s) == IF step = "connect_session" THEN "ClientSession" ELSE s

\* how a call ends when an awaited step raised: `except Exception`
client_except(message, cls) ==
    IF IsException(cls) THEN Err(ClientError(message, cls))
    ELSE Raised(Exc(cls, 0, <<>>))

\* connect(server_path), up to its first await or its return
connect(server_path) ==
    /\ cl_pc = "idle"
    /\ cl_connects < MaxConnects
    /\ cl_connects' = cl_connects + 1
    /\ cl_path' = server_path
    /\ IF ~endswith(server_path, {<<".","p","y">>, <<".","j","s">>})
       THEN /\ cl_result' = Err(ClientError("Invalid server path", "Must be .py or .js file"))
            /\ cl_pc' = "connect_done"
       ELSE /\ cl_pc' = connect_steps[1]
            /\ UNCHANGED cl_result
    /\ UNCHANGED <<session, cl_connected, notMcpClientVars>>

\* an awaited step of connect completes
connect_resume(o) ==
    /\ cl_pc \in {connect_steps[i] : i \in 1..Len(connect_steps)}
    /\ IF o = "ok"
       THEN /\ session' = session_after(cl_pc, session)
            /\ IF step_after(connect_steps, cl_pc) = "return"
               THEN /\ cl_result' = Ok(ConnectionInfo("tool_names", "backend_name"))
                    /\ cl_connected' = TRUE
                    /\ cl_pc' = "connect_done"
               ELSE /\ cl_pc' = step_after(connect_steps, cl_pc)
                    /\ UNCHANGED <<cl_result, cl_connected>>
       ELSE /\ cl_result' = client_except("Connection failed", o)
            /\ cl_pc' = "connect_done"
            /\ UNCHANGED <<session, cl_connected>>
    /\ UNCHANGED <<cl_path, cl_connects, notMcpClientVars>>

\* query(text), up to its first await or its return
query ==
    /\ cl_pc = "idle"
    /\ IF session = "None"
       THEN /\ cl_result' = Err(ClientError("Not connected", "Call connect() first"))
            /\ cl_pc' = "query_done"
       ELSE /\ cl_pc' = query_steps[1]
            /\ UNCHANGED cl_result
    /\ UNCHANGED <<session, cl_path, cl_connects, cl_connected, notMcpClientVars>>

\* an awaited step of query completes
query_resume(o) ==
    /\ cl_pc \in {query_steps[i] : i \in 1..Len(query_steps)}
    /\ IF o = "ok"
       THEN IF step_after(query_steps, cl_pc) = "return"
            THEN /\ cl_result' = Ok("result")
                 /\ cl_pc' = "query_done"
            ELSE /\ cl_pc' = step_after(query_steps, cl_pc)
                 /\ UNCHANGED cl_result
       ELSE /\ cl_result' = client_except("Query failed", o)
            /\ cl_pc' = "query_done"
    /\ UNCHANGED <<session, cl_path, cl_connects, cl_connected, notMcpClientVars>>

\* the caller has the result of connect or of query
client_call_returns ==
    /\ cl_pc \in {"connect_done", "query_done"}
    /\ cl_pc' = "idle"
    /\ cl_path' = <<>>
    /\ cl_result' = NoResult
    /\ UNCHANGED <<session, cl_connects, cl_connected, notMcpClientVars>>

McpClientNext ==
    \/ \E server_path \in ServerPaths : connect(server_path)
    \/ \E o \in StepOutcomes : connect_resume(o)
    \/ query
    \/ \E o \in StepOutcomes : query_resume(o)
    \/ client_call_returns

McpClientSpec == Init /\ [][McpClientNext]_vars

(***************************************************************************)
(* C25: query returns Err(ClientError 'Not connected') unless an earlier   *)
(* connect on the client returned Ok; a connect that returned Err leaves   *)
(* the client not connected.                                               *)
(* It fails: connect binds session before session.initialize() and         *)
(* session.list_tools(); when one of them raises, connect returns Err and   *)
(* the next query runs on the half-opened session.                          *)
(***************************************************************************)
C25_QueryNeedsSuccessfulConnect ==
    /\ (cl_pc \in {"query_list_tools", "query_processor"}) => cl_connected
    /\ (cl_pc = "query_done" /\ ~cl_connected) =>
           cl_result = Err(ClientError("Not connected", "Call connect() first"))

(***************************************************************************)
(* Concurrent callers of one RateLimiter (rate_limiter.py)                 *)
(***************************************************************************)
MaxLimiterTicks == 2    \* times the limiters' clock moves on in one run
MaxRecorded == 12       \* requests in the cat limiter's list when a call starts

\* the seconds the limiters' clock advances by at a time
LimiterTickSeconds == 30

\* the coroutines that use the limiters at the same time
Callers == {1, 2}

\* a caller that is not running
NoCaller == [pc |-> "idle", api |-> "", wake |-> 0]

\* calls are made while the API's list is below this length
MaxRecordedFor(a) == IF a = "cat" THEN MaxRecorded ELSE MaxOtherCalls

\* the requests of list reqs with timestamps inside the window that ends at t
recorded_in_window(reqs, lim, t) ==
    Cardinality({i \in 1..Len(reqs) : reqs[i] > t - lim.time_window})

\* wait_if_needed() up to `await asyncio.sleep(wait_time)` or, when it does
\* not sleep, to its end: the list it leaves, whether it sleeps, and until when
wait_if_needed_begin(reqs, lim, current_time) ==
    LET rate_info == check_rate_limit(reqs, lim, current_time) IN
    IF rate_info.status = "exceeded" /\ rate_info.retry_after # 0
    THEN [requests |-> rate_info.requests, sleeps |-> TRUE,
          wake |-> current_time + (IF rate_info.retry_after < max_backoff
                                   THEN rate_info.retry_after ELSE max_backoff)]
    ELSE [requests |-> Append(rate_info.requests, current_time), sleeps |-> FALSE,
          wake |-> current_time]

\* record_request() at time current_time
record_request(reqs, current_time) == Append(reqs, current_time)

\* time.time() of the limiters moves on
limiter_tick ==
    /\ rl_now < MaxLimiterTicks * LimiterTickSeconds
    /\ rl_now' = rl_now + LimiterTickSeconds
    /\ UNCHANGED <<rl_requests, callers, notLimiterVars>>

\* caller i runs a legacy tool up to its first suspension:
\* check_api_rate_limit, the refusal when the limit is exceeded, else
\* wait_for_rate_limit and the GET
limiter_tool_call(i, a) ==
    /\ callers[i].pc = "idle"
    /\ Len(rl_requests[a]) < MaxRecordedFor(a)
    /\ LET rate_info == check_rate_limit(rl_requests[a], api_rate_limiters[a], rl_now) IN
       IF rate_info.status = "exceeded"
       THEN /\ rl_requests' = [rl_requests EXCEPT ![a] = rate_info.requests]
            /\ callers' = [callers EXCEPT ![i] = [pc |-> "refused", api |-> a, wake |-> 0]]
       ELSE LET w == wait_if_needed_begin(rate_info.requests, api_rate_limiters[a], rl_now) IN
            /\ rl_requests' = [rl_requests EXCEPT ![a] = w.requests]
            /\ callers' = [callers EXCEPT ![i] =
                  [pc |-> IF w.sleeps THEN "sleeping" ELSE "fetching", api |-> a,
                   wake |-> w.wake]]
    /\ UNCHANGED <<rl_now, notLimiterVars>>

\* the tool of caller i returns: its GET has completed, or it was refused
limiter_tool_returns(i) ==
    /\ callers[i].pc \in {"fetching", "refused"}
    /\ callers' = [callers EXCEPT ![i] = NoCaller]
    /\ UNCHANGED <<rl_now, rl_requests, notLimiterVars>>

\* the legacy tools called concurrently
LegacyConcurrentNext ==
    \/ limiter_tick
    \/ \E i \in Callers, a \in {"duck", "dog", "cat"} : limiter_tool_call(i, a)
    \/ \E i \in Callers : limiter_tool_returns(i)

LegacyConcurrentSpec == Init /\ [][LegacyConcurrentNext]_vars

\* caller i calls wait_if_needed() of the cat limiter on its own
wait_if_needed_call(i) ==
    /\ callers[i].pc = "idle"
    /\ Len(rl_requests["cat"]) < MaxRecordedFor("cat")
    /\ LET w == wait_if_needed_begin(rl_requests["cat"], api_rate_limiters["cat"], rl_now) IN
       /\ rl_requests' = [rl_requests EXCEPT !["cat"] = w.requests]
       /\ callers' = [callers EXCEPT ![i] =
             IF w.sleeps THEN [pc |-> "sleeping", api |-> "cat", wake |-> w.wake]
             ELSE NoCaller]
    /\ UNCHANGED <<rl_now, notLimiterVars>>

\* the sleep of caller i is over: the request is recorded
wait_if_needed_wakes(i) ==
    /\ callers[i].pc = "sleeping"
    /\ rl_now >= callers[i].wake
    /\ rl_requests' = [rl_requests EXCEPT
                         ![callers[i].api] = record_request(@, rl_now)]
    /\ callers' = [callers EXCEPT ![i] = NoCaller]
    /\ UNCHANGED <<rl_now, notLimiterVars>>

\* wait_if_needed used on its own by concurrent callers
WaiterNext ==
    \/ limiter_tick
    \/ \E i \in Callers : wait_if_needed_call(i)
    \/ \E i \in Callers : wait_if_needed_wakes(i)

WaiterSpec == Init /\ [][WaiterNext]_vars

\* no limiter holds more than max_requests requests inside its window
WindowNeverExceeded ==
    \A a \in DOMAIN api_rate_limiters :
        recorded_in_window(rl_requests[a], api_rate_limiters[a], rl_now)
            <= api_rate_limiters[a].max_requests

(***************************************************************************)
(* C26: under any interleaving of concurrent legacy duck/dog/cat tool      *)
(* calls, the requests a RateLimiter has recorded inside its trailing      *)
(* time_window never exceed its max_requests; the check and the recording  *)
(* of a call happen without a suspension between them, so no tool call     *)
(* ever sleeps in wait_if_needed.                                          *)
(***************************************************************************)
C26_ConcurrentToolsKeepLimit ==
    /\ WindowNeverExceeded
    /\ \A i \in Callers : callers[i].pc # "sleeping"

\* the cat limiter is full while one cat call is fetching and another one
\* has been refused
C26_Witness ==
    /\ recorded_in_window(rl_requests["cat"], api_rate_limiters["cat"], rl_now) = 10
    /\ callers[1] = [pc |-> "fetching", api |-> "cat", wake |-> rl_now]
    /\ callers[2].pc = "refused"
    /\ callers[2].api = "cat"
    /\ rl_now = 30

(***************************************************************************)
(* C27: wait_if_needed used on its own keeps the limit: after any sequence *)
(* of calls, concurrent ones included, the requests recorded inside any    *)
(* trailing time_window never exceed max_requests.                         *)
(* It fails: a caller that slept records its request without checking      *)
(* again, so two callers that found the limit exceeded are both recorded   *)
(* when one slot has been freed.                                           *)
(***************************************************************************)
C27_WaitersKeepLimit ==
    recorded_in_window(rl_requests["cat"], api_rate_limiters["cat"], rl_now)
        <= api_rate_limiters["cat"].max_requests

(***************************************************************************)
(* Concurrent tool calls of create_mcp_server and get_client (server.py)   *)
(***************************************************************************)
\* the tool calls the server runs at the same time
ToolTasks == {1, 2, 3}

\* the tools that use the shared client
ClientTools == {"duck", "dog", "cat", "health_check"}

\* a tool task that is not running; client 0 is None, client k > 0 is the
\* k-th httpx.AsyncClient constructed
NoToolTask == [pc |-> "idle", tool |-> "", client |-> 0, at_call |-> 0]

\* faulty variant: `http_client is None` is decided on the value the
\* closure held when the tool was called
http_client_read_at_call(task, current) == task.at_call

\* the value of http_client that get_client tests: the closure's current one
http_client_read(task, current) == current

\* the server is asked to run tool t: the task is created
server_tool_called(i, t) ==
    /\ srv_tasks[i].pc = "idle"
    /\ srv_tasks' = [srv_tasks EXCEPT ![i] =
                       [pc |-> "called", tool |-> t, client |-> 0,
                        at_call |-> srv_http_client]]
    /\ UNCHANGED <<srv_http_client, srv_constructed, notServerVars>>

\* the task runs `client = await get_client()` and goes on to the await of
\* its fetch (or of check_all_apis)
server_tool_runs(i) ==
    /\ srv_tasks[i].pc = "called"
    /\ IF http_client_read(srv_tasks[i], srv_http_client) = 0
       THEN /\ srv_constructed' = srv_constructed + 1
            /\ srv_http_client' = srv_constructed + 1
       ELSE UNCHANGED <<srv_constructed, srv_http_client>>
    /\ srv_tasks' = [srv_tasks EXCEPT ![i].pc = "awaiting",
                                      ![i].client = srv_http_client']
    /\ UNCHANGED notServerVars

\* the awaited call of the task ends and the tool returns
server_tool_returns(i) ==
    /\ srv_tasks[i].pc = "awaiting"
    /\ srv_tasks' = [srv_tasks EXCEPT ![i] = NoToolTask]
    /\ UNCHANGED <<srv_http_client, srv_constructed, notServerVars>>

ServerNext ==
    \/ \E i \in ToolTasks, t \in ClientTools : server_tool_called(i, t)
    \/ \E i \in ToolTasks : server_tool_runs(i)
    \/ \E i \in ToolTasks : server_tool_returns(i)

ServerSpec == Init /\ [][ServerNext]_vars

(***************************************************************************)
(* C28: under any interleaving of concurrent duck, dog, cat and            *)
(* health_check calls, at most one httpx.AsyncClient is ever constructed,  *)
(* and every tool call uses that client.                                   *)
(***************************************************************************)
C28_OneSharedClient ==
    /\ srv_constructed <= 1
    /\ srv_http_client = srv_constructed
    /\ \A i \in ToolTasks :
          srv_tasks[i].pc = "awaiting" => srv_tasks[i].client = 1

\* three tools were called before the client existed and all of them hold
\* the one client
C28_Witness ==
    /\ srv_constructed = 1
    /\ \A i \in ToolTasks :
          /\ srv_tasks[i].pc = "awaiting"
          /\ srv_tasks[i].at_call = 0
          /\ srv_tasks[i].client = 1
    /\ {srv_tasks[i].tool : i \in ToolTasks} = {"duck", "dog", "health_check"}

(***************************************************************************)
(* The timeout of the outbound GETs (config.py, http.py)                   *)
(***************************************************************************)
\* values PETTING_ZOO_HTTP_TIMEOUT can give Config.http_timeout
HttpTimeouts == {5, 10, 30}

\* what a GET issued with a timeout can end in
TimedOutcomes ==
    { Raises(cls) : cls \in TimeoutExceptions \cup ConnectErrors } \cup
    { Response(200, <<>>, b) : b \in SampleBodies } \cup
    { Response(503, <<>>, Undecodable) }

\* client.get(url, timeout=config.http_timeout)
TimedGet(url, timeout) == [url |-> url, timeout |-> timeout]

\* Config() reads http_timeout from the environment, before any fetch
load_config(t) ==
    /\ tm_pc = "idle"
    /\ tm_gets = <<>>
    /\ config_http_timeout' = t
    /\ UNCHANGED <<tm_pc, tm_gets, tm_primary, tm_result, notTimeoutVars>>

\* fetch_duck, fetch_dog or fetch_cat is called and issues its first GET
timed_fetch_call(a) ==
    /\ tm_pc = "idle"
    /\ tm_pc' = FETCHERS[a].pc
    /\ tm_gets' = <<TimedGet(FETCHERS[a].url, config_http_timeout)>>
    /\ tm_primary' = NoResult
    /\ tm_result' = NoResult
    /\ UNCHANGED <<config_http_timeout, notTimeoutVars>>

\* the GET of fetch_duck or fetch_cat completes and the fetcher returns
timed_fetch_resume(o) ==
    /\ tm_pc \in {"duck_await", "cat_await"}
    /\ tm_result' = IF tm_pc = "duck_await" THEN fetch_duck_result(o)
                                           ELSE fetch_cat_result(o)
    /\ tm_pc' = "idle"
    /\ UNCHANGED <<config_http_timeout, tm_gets, tm_primary, notTimeoutVars>>

\* the primary GET of fetch_dog completes
timed_dog_primary_resume(o) ==
    /\ tm_pc = "dog_primary_await"
    /\ LET r == _fetch_dog_primary(o) IN
       /\ tm_primary' = r
       /\ IF r.kind \in {"Ok", "Raised"}
          THEN /\ tm_result' = r
               /\ tm_pc' = "idle"
               /\ UNCHANGED tm_gets
          ELSE /\ tm_gets' = Append(tm_gets,
                                    TimedGet("dog_fallback_url", config_http_timeout))
               /\ tm_pc' = "dog_fallback_await"
               /\ UNCHANGED tm_result
    /\ UNCHANGED <<config_http_timeout, notTimeoutVars>>

\* the fallback GET of fetch_dog completes and fetch_dog returns
timed_dog_fallback_resume(o) ==
    /\ tm_pc = "dog_fallback_await"
    /\ tm_result' = fetch_dog_return(tm_primary, _fetch_dog_fallback(o))
    /\ tm_pc' = "idle"
    /\ UNCHANGED <<config_http_timeout, tm_gets, tm_primary, notTimeoutVars>>

TimeoutNext ==
    \/ \E t \in HttpTimeouts : load_config(t)
    \/ \E a \in DOMAIN FETCHERS : timed_fetch_call(a)
    \/ \E o \in TimedOutcomes : timed_fetch_resume(o)
    \/ \E o \in TimedOutcomes : timed_dog_primary_resume(o)
    \/ \E o \in TimedOutcomes : timed_dog_fallback_resume(o)

TimeoutSpec == Init /\ [][TimeoutNext]_vars

\* the fetch returned Err(NetworkTimeout)
ReturnedNetworkTimeout ==
    /\ tm_pc = "idle"
    /\ tm_result.kind = "Err"
    /\ tm_result.error.tag = "NetworkTimeout"

(***************************************************************************)
(* C29: when a fetch times out, the timeout_seconds of the NetworkTimeout  *)
(* it returns equals the timeout its GETs were issued with                 *)
(* (config.http_timeout), for every configured timeout and every animal.   *)
(***************************************************************************)
C29_TimeoutSecondsIsConfigured ==
    ReturnedNetworkTimeout =>
        \A k \in 1..Len(tm_gets) :
            tm_result.error.timeout_seconds = tm_gets[k].timeout

(***************************************************************************)
(* The dog tool of the legacy server and the dog tool of                   *)
(* petting_zootopia.server, given the same transport outcomes              *)
(***************************************************************************)
\* how many times the two dog tools are called in a run
MaxDogCalls == 2

\* the defaults of Config.dog_api_url and Config.dog_fallback_url
config_urls ==
    [dog_api_url |-> "https://random.dog/woof.json",
     dog_fallback_url |-> "https://dog.ceo/api/breeds/image/random"]

\* what the primary and the fallback endpoint can answer the two tools
DogOutcomes ==
    { Raises(cls) : cls \in TransportExceptions } \cup
    { Response(200, <<>>, b) : b \in LayerBodies } \cup
    { Response(200, <<>>, JObj(<< <<"url", JStr(<<"x",".","P","N","G">>)>> >>)),
      Response(200, <<>>, JObj(<< <<"message", JNum(5)>> >>)),
      Response(200, <<>>, JNull),
      Response(404, <<>>, Undecodable),
      Response(429, << <<"3","0">> >>, Undecodable),
      Response(503, <<>>, Undecodable) }

\* a dog tool that is not running
NoDogCall == [pc |-> "idle", gets |-> <<>>, reply |-> NoReply]

\* both dog tools are called and the endpoints will answer o1 and o2; the
\* legacy tool asks its limiter first
dog_tools_called(o1, o2) ==
    /\ dog_legacy.pc = "idle"
    /\ dog_new.pc = "idle"
    /\ Len(dog_limiter) < MaxDogCalls
    /\ dog_answers' = [primary |-> o1, fallback |-> o2]
    /\ LET t == Len(dog_limiter)
           rate_info == check_rate_limit(dog_limiter, api_rate_limiters["dog"], t)
       IN IF rate_info.status = "exceeded"
          THEN /\ dog_limiter' = rate_info.requests
               /\ dog_admitted' = FALSE
               /\ dog_legacy' = [pc |-> "done", gets |-> <<>>,
                                 reply |-> Returned(Text(
                                     "Error: {Animal} API rate limit exceeded. Please try again later.",
                                     JStr(name_chars("dog"))))]
          ELSE /\ dog_limiter' = wait_if_needed(rate_info.requests,
                                                api_rate_limiters["dog"], t).requests
               /\ dog_admitted' = TRUE
               /\ dog_legacy' = [pc |-> "await", gets |-> <<legacy_url("dog")>>,
                                 reply |-> NoReply]
    /\ dog_new' = [pc |-> "await", gets |-> <<config_urls[FETCHERS["dog"].url]>>,
                   reply |-> NoReply]
    /\ UNCHANGED <<dog_primary, notDogVars>>

\* the primary GET of the legacy dog tool completes
legacy_dog_primary_resume ==
    /\ dog_legacy.pc = "await"
    /\ LET r == legacy_except(legacy_dog_stage(dog_answers.primary, "url"), "dog") IN
       dog_legacy' =
          IF r = Unusable
          THEN [dog_legacy EXCEPT
                   !.pc = "fallback_await",
                   !.gets = Append(@, "https://dog.ceo/api/breeds/image/random")]
          ELSE [dog_legacy EXCEPT !.pc = "done", !.reply = r]
    /\ UNCHANGED <<dog_new, dog_answers, dog_limiter, dog_admitted, dog_primary,
                   notDogVars>>

\* the fallback GET of the legacy dog tool completes
legacy_dog_fallback_resumes ==
    /\ dog_legacy.pc = "fallback_await"
    /\ LET r == legacy_except(legacy_dog_stage(dog_answers.fallback, "message"), "dog") IN
       dog_legacy' = [dog_legacy EXCEPT
                         !.pc = "done",
                         !.reply = IF r = Unusable
                                   THEN Returned(JStr(FALLBACK_IMAGES["dog"]))
                                   ELSE r]
    /\ UNCHANGED <<dog_new, dog_answers, dog_limiter, dog_admitted, dog_primary,
                   notDogVars>>

\* the primary GET of fetch_dog, called by the new dog tool, completes
new_dog_primary_resume ==
    /\ dog_new.pc = "await"
    /\ LET r == _fetch_dog_primary(dog_answers.primary) IN
       /\ dog_primary' = r
       /\ dog_new' =
             IF r.kind \in {"Ok", "Raised"}
             THEN [dog_new EXCEPT !.pc = "done", !.reply = tool_return_value("dog", r)]
             ELSE [dog_new EXCEPT
                      !.pc = "fallback_await",
                      !.gets = Append(@, config_urls["dog_fallback_url"])]
    /\ UNCHANGED <<dog_legacy, dog_answers, dog_limiter, dog_admitted, notDogVars>>

\* the fallback GET of fetch_dog completes and the new dog tool returns
new_dog_fallback_resume ==
    /\ dog_new.pc = "fallback_await"
    /\ dog_new' = [dog_new EXCEPT
                      !.pc = "done",
                      !.reply = tool_return_value("dog",
                                    fetch_dog_return(dog_primary,
                                        _fetch_dog_fallback(dog_answers.fallback)))]
    /\ UNCHANGED <<dog_legacy, dog_answers, dog_limiter, dog_admitted, dog_primary,
                   notDogVars>>

\* both replies are with the MCP client; the limiter stays
dog_tools_done ==
    /\ dog_legacy.pc = "done"
    /\ dog_new.pc = "done"
    /\ dog_legacy' = NoDogCall
    /\ dog_new' = NoDogCall
    /\ dog_primary' = NoResult
    /\ UNCHANGED <<dog_answers, dog_limiter, dog_admitted, notDogVars>>

DogDraftsNext ==
    \/ \E o1, o2 \in DogOutcomes : dog_tools_called(o1, o2)
    \/ legacy_dog_primary_resume
    \/ legacy_dog_fallback_resumes
    \/ new_dog_primary_resume
    \/ new_dog_fallback_resume
    \/ dog_tools_done

DogDraftsSpec == Init /\ [][DogDraftsNext]_vars

\* both dog tools have answered a call the legacy limiter admitted
BothDogToolsAnswered ==
    /\ dog_admitted
    /\ dog_legacy.pc = "done"
    /\ dog_new.pc = "done"

====
